---- MODULE Spec2Model ----
(***************************************************************************)
(* Model of the risk-control layer (utils/risk_controls.rs RiskManager,    *)
(* the "RiskGate") and of the detection-to-execution path                  *)
(* (mempool/solana.rs analyze_and_execute_opportunity and                  *)
(* utils/mev_strategies.rs MevStrategyExecutor) of the MEV bot, and of the *)
(* endpoint router (rpc/rpc_manager.rs RpcManager).                        *)
(*                                                                         *)
(* Amounts of SOL are fixed-point integers in micro-SOL (the f64 values of  *)
(* the source enter comparisons, sums and a few products only).  Times are *)
(* seconds since the RiskManager was constructed (session_start_time = 0). *)
(*                                                                         *)
(* Every RiskManager field sits behind its own tokio RwLock, so an async   *)
(* method is atomic only between two lock acquisitions.  The admission     *)
(* methods are modelled step by step, one action per lock they take; the   *)
(* methods that hold a single write lock for their whole effect are one    *)
(* action.  Fields that no method ever reads back (last_operation_time,    *)
(* last_failure_time, the balance_history log) are left out of the state;  *)
(* the bounded logs are kept as sequences of the entries' numbers.         *)
(*                                                                         *)
(* The health record of an RPC endpoint keeps success_rate in thousandths  *)
(* and is_healthy; latency_ms enters only through the 2000 ms test of      *)
(* update_health.  The read lock at the start of a request only copies the *)
(* URL, and its single effect on the table is the write of update_health   *)
(* when the endpoint has answered: between the choice of the endpoint and  *)
(* the answer a task of the detection-to-execution path waits, and the     *)
(* others run.  An answer is a result, a JSON body with an "error" member  *)
(* (recorded as a success by update_health), or no JSON at all (not        *)
(* recorded).  Where two f64 values that are equal as exact numbers are    *)
(* compared, the outcome follows the rounding of the computed values,      *)
(* which is an input of the step.                                          *)
(*                                                                         *)
(* Next to these stand the monitoring loop of SolanaMempool::start, the    *)
(* locks of the MetricsCollector (one action per lock acquisition), the    *)
(* two read-through caches of the OpportunityEvaluator (clock in ticks of  *)
(* half a second, so that Duration::as_secs has a fraction to drop), the   *)
(* start-up of the RiskManager from the environment, and the pure          *)
(* profitability, filtering, confidence and tip calculations, applied to   *)
(* inputs drawn from small sets; the running tip of the JitoOptimizer and  *)
(* the bounded logs; and the SolanaExecutor with the RiskManager of        *)
(* utils/risk_manager.rs, one action per execute_* call.                   *)
(***************************************************************************)
EXTENDS Integers, Sequences, FiniteSets, TLC

(* ---------------- bounds of the model ---------------- *)

\* the clock advances in steps of TickSecs up to MaxTime
TickSecs == 1800
MaxTime == 7200
\* RiskLimits read from the environment by RiskManager::new
DailyLimit == 10000000
MinBalance == 500000
MaxConsecutiveFailures == 2
MaxStrategyFailures == 2
SessionTimeoutMinutes == 90
\* the history sum of admitted costs saturates here
AdmitCap == 12000000
\* ceiling on the sums balance_tracker accumulates
MovedCap == 10000000

\* a strategy is disabled for one hour
DisableSecs == 3600

\* opportunities: estimated profits, and what the network answers for them
OppProfits == {4000, 50000}
Scores == {50, 90}
SnapshotGains == {0, 10000, 20000}
\* what a request sent to an endpoint comes back with: a JSON answer that
\* carries the result, a JSON answer with an "error" member, or no JSON at
\* all (the HTTP request failed, or the body could not be read or parsed)
Answers == {"result", "error_member", "failed"}
\* the prioritization fees of an answer: no sample, or the average of the
\* samples in lamports
FeeSamples == {{}, {2495000}, {60000000}}
\* the sign of the rounding error of an f64 difference whose exact value is 0
Roundings == {0 - 1, 0, 1}

\* the transactions a detection is analysed on: up to MaxSwapInstructions
\* instructions of a known exchange, the fee of the transaction in lamports
\* (none when meta has no fee), and at most one balance change of a mint,
\* given by the change times the price of the mint in micro-SOL and by the
\* balance after the transaction as the trade size
MaxSwapInstructions == 2
TxFees == {{}, {500000}, {1000000}}
BalanceChanges ==
  {{}} \cup {{[estimated_profit |-> p, trade_size |-> s]} : p \in {4000, 50000}, s \in {0, 1, 25}}
\* OpportunityEvaluator: the threshold on an estimate, the estimate and the
\* trade size of a swap, the liquidity of a fetched pool in SOL, and the
\* opportunity value its fee estimate is asked for
opportunity_threshold == 5000
DefaultSwapEstimate == 1000
SwapTradeSize == 1000000
FetchedLiquidity == 5000
EvaluatorOpportunityValue == 10000
\* FeeCalculator::calculate_base_transaction_fee
BaseTransactionFee == 5
\* the scenarios of run_simulation_variations
Scenarios == 3

\* FalsePositiveReducer: 85% confidence required, 0.001 SOL minimum value
MinConfidenceThreshold == 85
MinOpportunityValue == 1000
\* MevSimulationPipeline: net profit above 0.01 SOL, deviation at most 0.1 SOL
MinSimulatedProfit == 10000
MaxVarianceThreshold == 100000
\* MevStrategyExecutor profit floors
min_arbitrage_profit == 5000
min_sandwich_profit == 10000
\* JitoOptimizer tip bounds
MinTip == 100
MaxTip == 10000

Callers == {1, 2}
\* the task of the operator, which calls reset_risk_state
Operator == 0
Kinds == {"Arbitrage", "Sandwich"}
\* the opportunity types execute_strategy tells apart; "Other" stands for
\* Liquidation and Other, which take the same branch
OpportunityTypes == {"Arbitrage", "Sandwich", "Frontrun", "Other"}
\* costs and profits handed to the gate, balances reported by the wallet
Costs == {4000000, 6000000}
SmallCosts == {400000}
Profits == {0 - 6000000, 500000}
Balances == {400000, 5000000, 10000000}
\* the failure counters are explored up to one past their ceiling
\* the 24 hours of the daily window, and the days explored
DaySecs == 86400
MaxDays == 2

\* rounds of the health-check task and calls of make_request per caller explored
MaxRounds == 2
MaxCalls == 2

\* latency under which update_health keeps an endpoint healthy, in ms
MaxHealthyLatencyMs == 2000
Latencies == {150, 2500}

\* start_slot_monitoring: errors in a row before the WebSocket is tried again
max_errors_before_reset == 10

\* executions recorded before no further record_strategy_execution is started
MaxExecutions == 10

\* check_and_trigger_alerts: executions needed for the success-rate alert, and
\* success_rate_threshold in thousandths
AlertMinExecutions == 10
success_rate_threshold == 700

\* EnhancedTransactionSimulator: safety margin, tip, fee estimate with and
\* without fee samples, in micro-SOL; the placeholder pool size and the
\* pool-to-trade ratio; the confidence threshold in hundredths
safety_margin == 5000
DynamicJitoTip == 1000
AnalysedFee == 3000
FallbackFee == 5000
PoolSize == 100
min_pool_ratio == 10
min_confidence_threshold == 85

\* FalsePositiveReducer: pool depth required, as a multiple of the trade size
pool_depth_multiplier == 10

\* inputs of the false-positive filter: confidence scores and slippage
\* factors in hundredths, pool and trade sizes, estimated profits in micro-SOL
FilterScores == {50, 85, 90}
SlippageFactors == {10, 50, 51, 100}
FilterPoolSizes == {1000, 10000}
FilterTradeSizes == {50, 100, 101, 2000}
FilterProfits == {500, 1000, 50000}

\* the confidence score's inputs: trade sizes from none to a fifth of the
\* small pool, estimated profits in micro-SOL around the value bands, and
\* simulation results with a net profit on either side of zero
ScoreTradeSizes == {0, 1, 6, 60, 125, 2000}
ScoreProfits == {0, 500, 5000, 10000, 50000}
SimNets == {0 - 40000, 0, 5000, 20000}
MaxResults == 2

\* inputs of the tip calculation: an opportunity value in micro-SOL for each
\* band of the base tip, with the band edges, and congestion and competition
\* levels in percent, on the 0 to 1 scale and above it
TipValues == {5000, 10000, 10001, 100001, 500001, 1000000, 1000001}
Levels == {0, 50, 60, 100, 300}

\* inputs of the profitability calculations: gross profits, trade sizes,
\* costs in micro-SOL, and profit margins in thousandths
GrossProfits == {5000, 9500, 11000, 21000, 300000, 600000}
TradeSizes == {0, 1, 9, 10, 25, 60}
AnalysisProfits == {0, 5000, 8800, 10000, 20000}
AnalysisCosts == {0, 6000, 8000}
ProfitMargins == {0, 100}

\* the cache clock: ticks per second, and the last tick of the model
TicksPerSec == 2
MaxCacheTime == 11

\* freshness windows of get_pool_state and get_token_price, in seconds
PoolTtlSecs == 1
PriceTtlSecs == 5

\* JitoOptimizer: the running base tip at construction, in micro-SOL
DefaultTip == 1000
\* the entries each log keeps
TipHistoryCap == 100
RiskEventCap == 1000
AlertCap == 1000
\* the tip results recorded where the running tip is followed, and the
\* entries pushed to a log beyond what it keeps
MaxTipRecords == 4
ExtraAppends == 3
\* the risk events recorded by the methods of the RiskManager
MaxRiskEvents == 2
\* the alerts triggered by check_and_trigger_alerts
MaxAlerts == 2

\* the RiskManager of risk_manager.rs with no setting given: the loss a bundle
\* may expect and the largest position, in micro-SOL; the profit-to-cost
\* ratio, in thousandths; the losses in a row that pause trading
LegacyMaxLossPerBundle == 100000
LegacyMinProfitabilityRatio == 1200
LegacyMaxConsecutiveLosses == 5
PositionSizeLimit == 5000000
\* SolanaExecutor: the fee calculate_transaction_fees always reports and the
\* tip of a Jito bundle, in micro-SOL
LegacyFee == 5000
LegacyJitoTip == 1000
\* additional_safety_checks: the smallest and the largest profit it lets
\* through, in micro-SOL, and its profit-to-cost ratio, in thousandths
SafetyMinProfit == 1000
SafetyMaxProfit == 500000
SafetyRatio == 1200
\* ProfitCalculator.min_profit_margin, in thousandths
LegacyMinProfitMargin == 100
\* the failed sends in a row of the SolanaExecutor followed
MaxFailedSends == 6
\* record_transaction_result is followed up to this many losses in a row
MaxLossRecords == 6

FailureCap == MaxConsecutiveFailures + 1
StrategyFailureCap == MaxStrategyFailures + 2

VARIABLES
  limits,                     \* RiskManager.limits
  now,                        \* the system clock
  balance_tracker,            \* RiskManager.balance_tracker
  global_daily_spent,         \* RiskManager.global_daily_spent
  consecutive_failure_count,  \* RiskManager.consecutive_failure_count
  strategy_failures,          \* RiskManager.strategy_failures
  call,                       \* per task: the call of the RiskManager in progress
  last_record,                \* return value of the last record_failed_operation / update_balance
  admitted_total,             \* history: summed costs of the attempts admitted so far
  fail_streak,                \* history: failures recorded since the last recorded success
  fail_since_reset,           \* history: the same, also restarted by reset_risk_state
  since_enabled,              \* history, per kind: failures recorded since it last became enabled
  since_success,              \* history, per kind: the same, also restarted by a recorded success
  pipe,                       \* per task: the opportunity it is handling and its stage
  endpoints,                  \* RpcManager.endpoints: the health record of each endpoint
  checked,                    \* history, per endpoint: verdict of its most recent health check
  hc,                         \* the periodic health-check task
  req,                        \* per caller: its use of the RpcManager
  mon,                        \* SolanaMempool::start: the monitoring loop
  system_metrics,             \* MetricsCollector.system_metrics: the two execution counters
  mlocks,                     \* the RwLocks of the MetricsCollector: writer and readers
  mc,                         \* per caller: its call of the MetricsCollector
  ctime,                      \* the system clock in ticks of half a second
  cache,                      \* the pool and the price cache: last_updated of the entry, if any
  lookup,                     \* per caller: its get_pool_state / get_token_price call
  env,                        \* the process environment: per setting, its text if set
  boot,                       \* start-up: RiskManager::new and what it returned
  analysis,                   \* the last profitability result computed, with its inputs
  current_tip,                \* JitoOptimizer.current_tip, the running base tip
  tip_adjustment_history,     \* JitoOptimizer.tip_adjustment_history
  risk_events,                \* RiskManager.risk_events
  alert_history,              \* MetricsCollector.alert_history
  appended,                   \* history, per log: the entries pushed since it was last emptied
  risk_state,                 \* the state of the RiskManager held by the SolanaExecutor
  legacy                      \* the SolanaExecutor: per user, its execute_* call and what came of it

riskVars == <<limits, now, balance_tracker, global_daily_spent,
              consecutive_failure_count, strategy_failures, call, last_record,
              admitted_total, fail_streak, fail_since_reset, since_enabled, since_success>>

rpcVars == <<endpoints, checked, hc, req>>

\* the components next to the risk layer, the path and the router
metricVars == <<system_metrics, mlocks, mc>>

cacheVars == <<ctime, cache, lookup>>

bootVars == <<env, boot>>

\* the running tip and the three bounded logs
logVars == <<current_tip, tip_adjustment_history, risk_events, alert_history, appended>>

legacyVars == <<risk_state, legacy>>

auxVars == <<mon, metricVars, cacheVars, bootVars, analysis, logVars, legacyVars>>

vars == <<riskVars, pipe, rpcVars, auxVars>>

(* ---------------- RiskManager: data ---------------- *)

\* StrategyFailureTracker; Option<SystemTime> is the empty set or a singleton
NoTracker == [present |-> FALSE, failure_count |-> 0, is_disabled |-> FALSE, disabled_until |-> {}]

NewTracker == [present |-> TRUE, failure_count |-> 0, is_disabled |-> FALSE, disabled_until |-> {}]

\* a task of the detection-to-execution path with no opportunity in hand
IdleTask == [pc |-> "idle", origin |-> "none", otype |-> "none", target |-> FALSE,
             estimated_profit |-> 0, trade_size |-> 0,
             validated_net |-> 0, is_profitable |-> FALSE,
             score |-> 0, tip |-> 0,
             net_profit |-> 0, bundle |-> <<>>, sent |-> FALSE, accepted |-> FALSE,
             result |-> "none",
             step |-> "none", opps |-> <<>>, rq |-> "none", fees |-> <<>>]

\* a task that is in no method of the RiskManager; event is the risk event a
\* method is about to hand to record_risk_event
IdleCall == [pc |-> "idle", op |-> "none", kind |-> "none", costs |-> 0, res |-> "none",
             event |-> "none"]

\* the tasks that call the RiskManager
Tasks == Callers \cup {Operator}

RiskErrors == {"BalanceTooLow", "DailySpendingLimitExceeded", "MaxConsecutiveFailures",
               "LossLimitExceeded", "StrategyDisabled", "SessionTimeout",
               "InsufficientBalance", "InternalError"}

RiskManagerNew ==
  /\ limits = [global_daily_spending_limit |-> DailyLimit,
               max_consecutive_failures |-> MaxConsecutiveFailures,
               min_balance_threshold |-> MinBalance,
               max_strategy_failures |-> MaxStrategyFailures,
               session_timeout_minutes |-> SessionTimeoutMinutes]
  /\ balance_tracker = [initial_balance |-> 0, current_balance |-> 0,
                        total_spent |-> 0, total_earned |-> 0]
  /\ strategy_failures = [k \in Kinds |-> NoTracker]
  /\ global_daily_spent = 0
  /\ consecutive_failure_count = 0

(* ---------------- RpcManager: data ---------------- *)

\* RpcEndpointType, in the order run_health_checks visits them
EndpointOrder == <<"Helius", "Jito", "Drpc">>

EndpointTypes == {"Helius", "Jito", "Drpc"}

\* RpcTaskType
RpcTaskTypes == {"Read", "Simulate", "Execute"}

\* a caller that is not using the RpcManager
IdleReq == [role |-> "none", ep |-> "none", res |-> "none", calls |-> 0]

\* RpcManager::new: load_endpoints_from_env gives every endpoint success rate
\* 1.0 (in thousandths) and is_healthy = false; the health-check task is
\* spawned and has not run yet
RpcManagerNew ==
  /\ endpoints = [e \in EndpointTypes |-> [success_rate |-> 1000, is_healthy |-> FALSE]]
  /\ checked = [e \in EndpointTypes |-> "none"]
  /\ hc = [pc |-> "sleep", at |-> 1, success |-> FALSE, rounds |-> 0]
  /\ req = [c \in Callers |-> IdleReq]

\* the fields of the MetricsCollector, each behind its own RwLock
MetricLocks == {"system_metrics", "strategy_metrics", "rpc_metrics",
                "opportunity_history", "alert_history"}

MetricOps == {"record_strategy_execution", "record_opportunity_result", "record_rpc_call",
              "check_and_trigger_alerts", "reset_metrics"}

\* MetricsCollector::new: counters at zero, every lock free (writer 0)
MetricsCollectorNew ==
  /\ system_metrics = [total_opportunities_executed |-> 0, total_successful_executions |-> 0]
  /\ mlocks = [l \in MetricLocks |-> [writer |-> 0, readers |-> {}]]
  /\ mc = [c \in Callers |-> [op |-> "none", arg |-> FALSE, pc |-> "idle"]]

\* the settings RiskManager::new reads from the environment
Settings == {"GLOBAL_LOSS_PER_BUNDLE", "GLOBAL_DAILY_SPENDING_LIMIT",
             "MAX_CONSECUTIVE_FAILURES", "MIN_BALANCE_THRESHOLD",
             "MAX_STRATEGY_FAILURES", "SESSION_TIMEOUT_MINUTES"}

\* the text RiskManager::new falls back on when a setting is not in the environment
DefaultText(s) ==
  CASE s = "GLOBAL_LOSS_PER_BUNDLE" -> "0.01"
    [] s = "GLOBAL_DAILY_SPENDING_LIMIT" -> "10.0"
    [] s = "MAX_CONSECUTIVE_FAILURES" -> "5"
    [] s = "MIN_BALANCE_THRESHOLD" -> "0.5"
    [] s = "MAX_STRATEGY_FAILURES" -> "3"
    [] s = "SESSION_TIMEOUT_MINUTES" -> "0"

\* the text of each setting in the environment the risk layer above runs with
GivenText(s) ==
  CASE s = "GLOBAL_LOSS_PER_BUNDLE" -> "0.02"
    [] s = "GLOBAL_DAILY_SPENDING_LIMIT" -> "10.0"
    [] s = "MAX_CONSECUTIVE_FAILURES" -> "2"
    [] s = "MIN_BALANCE_THRESHOLD" -> "0.5"
    [] s = "MAX_STRATEGY_FAILURES" -> "2"
    [] s = "SESSION_TIMEOUT_MINUTES" -> "90"

\* str::parse::<f64> / ::<u32> / ::<u64>: whether the text is a number
Parses(text) == text \in {"0.01", "0.02", "10.0", "0.5", "0", "2", "3", "5", "90"}

\* the number parsed: amounts in micro-SOL, counts and minutes as they are
Parsed(text) ==
  CASE text = "0.01" -> 10000
    [] text = "0.02" -> 20000
    [] text = "10.0" -> 10000000
    [] text = "0.5" -> 500000
    [] text = "0" -> 0
    [] text = "2" -> 2
    [] text = "3" -> 3
    [] text = "5" -> 5
    [] text = "90" -> 90

NoLimits == [s \in Settings |-> 0]

\* the process after a start-up with every setting given
Started ==
  /\ env = [s \in Settings |-> {GivenText(s)}]
  /\ boot = [pc |-> "running", error |-> "none",
             limits |-> [s \in Settings |-> Parsed(GivenText(s))]]

\* no profitability result computed yet
NoAnalysis == [by |-> "none"]

Logs == {"tip_adjustment_history", "risk_events", "alert_history"}

\* JitoOptimizer::new: the running tip and the empty tip history
JitoOptimizerNew ==
  /\ current_tip = DefaultTip
  /\ tip_adjustment_history = <<>>

\* RiskManager::new and MetricsCollector::new: the empty event and alert logs
LogsNew ==
  /\ risk_events = <<>>
  /\ alert_history = <<>>
  /\ appended = [l \in Logs |-> 0]

\* the users of the SolanaExecutor, each with its clone: a caller of its
\* public methods, and the slot-polling loop
ExecCallers == {"caller", "slot"}

\* a user that is in no execute_* call; allowed is the answer of the risk
\* manager once it was asked
IdleExec == [pc |-> "idle", strategy |-> "none", estimated_profit |-> 0, total_cost |-> 0,
             allowed |-> {}, result |-> "none", submitted |-> FALSE, spent |-> 0]

\* SolanaExecutor::new and the RiskManager::new of risk_manager.rs within it:
\* no loss counted, the day starting at construction, and no execute_* call
\* made.  USE_JITO is read here; use_jito is empty until the first call fixes
\* the value that was read
SolanaExecutorNew ==
  /\ risk_state = [daily_losses |-> 0, consecutive_losses |-> 0, last_reset_time |-> 0]
  /\ legacy = [use_jito |-> {}, failed_in_a_row |-> 0,
               call |-> [o \in ExecCallers |-> IdleExec]]

\* the keys of pool_states, one for each pair, and of price_cache, the mint
PoolKeys == {"TOKEN_A_TOKEN_B", "MINT_SOL"}

CacheKeys == PoolKeys \cup {"MINT"}

IdleLookup == [pc |-> "idle", key |-> "none", fetched |-> 0, res |-> "none"]

\* OpportunityEvaluator::new: both caches empty
OpportunityEvaluatorNew ==
  /\ ctime = 0
  /\ cache = [key \in CacheKeys |-> {}]
  /\ lookup = [c \in Callers |-> IdleLookup]

\* SolanaMempool::start once the executor is built: about to connect to the
\* WebSocket; connection_errors is the counter of start_slot_monitoring
MempoolNew == mon = [pc |-> "connect", connection_errors |-> 0, simulated |-> FALSE]

Init ==
  /\ RiskManagerNew
  /\ now = 0
  /\ call = [t \in Tasks |-> IdleCall]
  /\ last_record = "none"
  /\ admitted_total = 0
  /\ fail_streak = 0
  /\ fail_since_reset = 0
  /\ since_enabled = [k \in Kinds |-> 0]
  /\ since_success = [k \in Kinds |-> 0]
  /\ pipe = [t \in Callers |-> IdleTask]
  /\ RpcManagerNew
  /\ MempoolNew
  /\ MetricsCollectorNew
  /\ OpportunityEvaluatorNew
  /\ Started
  /\ analysis = NoAnalysis
  /\ JitoOptimizerNew
  /\ LogsNew
  /\ SolanaExecutorNew

\* RiskManager::new in an environment without SESSION_TIMEOUT_MINUTES: the
\* fallback text "0" is parsed, and 0 is no session timeout
InitDaily ==
  /\ limits = [global_daily_spending_limit |-> DailyLimit,
               max_consecutive_failures |-> MaxConsecutiveFailures,
               min_balance_threshold |-> MinBalance,
               max_strategy_failures |-> MaxStrategyFailures,
               session_timeout_minutes |-> Parsed(DefaultText("SESSION_TIMEOUT_MINUTES"))]
  /\ balance_tracker = [initial_balance |-> 0, current_balance |-> 0,
                        total_spent |-> 0, total_earned |-> 0]
  /\ strategy_failures = [k \in Kinds |-> NoTracker]
  /\ global_daily_spent = 0
  /\ consecutive_failure_count = 0
  /\ now = 0
  /\ call = [t \in Tasks |-> IdleCall]
  /\ last_record = "none"
  /\ admitted_total = 0
  /\ fail_streak = 0
  /\ fail_since_reset = 0
  /\ since_enabled = [k \in Kinds |-> 0]
  /\ since_success = [k \in Kinds |-> 0]
  /\ pipe = [t \in Callers |-> IdleTask]
  /\ RpcManagerNew
  /\ MempoolNew
  /\ MetricsCollectorNew
  /\ OpportunityEvaluatorNew
  /\ env = [s \in Settings |-> IF s = "SESSION_TIMEOUT_MINUTES" THEN {} ELSE {GivenText(s)}]
  /\ boot = [pc |-> "running", error |-> "none",
             limits |-> [s \in Settings |->
                           Parsed(IF s = "SESSION_TIMEOUT_MINUTES" THEN DefaultText(s)
                                  ELSE GivenText(s))]]
  /\ analysis = NoAnalysis
  /\ JitoOptimizerNew
  /\ LogsNew
  /\ SolanaExecutorNew

\* the process about to build its RiskManager, in any environment: each
\* setting absent, given, or given as text that is no number.  There is no
\* manager yet: its limits are written when RiskManager::new returns Ok
InitBoot ==
  /\ limits = [global_daily_spending_limit |-> 0, max_consecutive_failures |-> 0,
               min_balance_threshold |-> 0, max_strategy_failures |-> 0,
               session_timeout_minutes |-> 0]
  /\ balance_tracker = [initial_balance |-> 0, current_balance |-> 0,
                        total_spent |-> 0, total_earned |-> 0]
  /\ strategy_failures = [k \in Kinds |-> NoTracker]
  /\ global_daily_spent = 0
  /\ consecutive_failure_count = 0
  /\ now = 0
  /\ call = [t \in Tasks |-> IdleCall]
  /\ last_record = "none"
  /\ admitted_total = 0
  /\ fail_streak = 0
  /\ fail_since_reset = 0
  /\ since_enabled = [k \in Kinds |-> 0]
  /\ since_success = [k \in Kinds |-> 0]
  /\ pipe = [t \in Callers |-> IdleTask]
  /\ RpcManagerNew
  /\ MempoolNew
  /\ MetricsCollectorNew
  /\ OpportunityEvaluatorNew
  /\ env \in [Settings -> {{}, {"abc"}} \cup {{GivenText(s)} : s \in Settings}]
  /\ \A s \in Settings : env[s] \subseteq {"abc", GivenText(s)}
  /\ boot = [pc |-> "starting", error |-> "none", limits |-> NoLimits]
  /\ analysis = NoAnalysis
  /\ JitoOptimizerNew
  /\ LogsNew
  /\ SolanaExecutorNew

(* ---------------- the bounded logs ---------------- *)

\* a log that keeps its first entries and drops what arrives when it is full
push_keeping_oldest(log, entry, cap) ==
  LET pushed == Append(log, entry)
  IN IF Len(pushed) > cap THEN SubSeq(pushed, 1, cap) ELSE pushed

\* Vec::push, then drain(0..len - cap) when the length is over the cap
push_bounded(log, entry, cap) ==
  LET pushed == Append(log, entry)
      to_remove == Len(pushed) - cap
  IN IF Len(pushed) > cap THEN SubSeq(pushed, to_remove + 1, Len(pushed)) ELSE pushed

\* the risk-event log and the count of what was pushed to it
riskLog == <<risk_events, appended>>

\* what a method of the RiskManager that may record a risk event leaves alone
\* next to the risk layer
riskAux == <<mon, metricVars, cacheVars, bootVars, analysis, legacyVars,
             current_tip, tip_adjustment_history, alert_history>>

\* RiskManager::record_risk_event of an event of the given type, from the
\* write lock on: the entry is kept as its place in the order of arrival
record_risk_event(event_type) ==
  /\ risk_events' = push_bounded(risk_events, [at |-> appended["risk_events"] + 1],
                                 RiskEventCap)
  /\ appended' = [appended EXCEPT !["risk_events"] = @ + 1]

\* the methods of the RiskManager are followed up to MaxRiskEvents events
RiskEventRoom == appended["risk_events"] < MaxRiskEvents

\* JitoOptimizer::record_tip_result; the entry's Instant is its place in the
\* order of arrival
record_tip_result(tip_amount, success) ==
  /\ tip_adjustment_history' =
       push_bounded(tip_adjustment_history,
                    [at |-> appended["tip_adjustment_history"] + 1,
                     tip_amount |-> tip_amount, success |-> success],
                    TipHistoryCap)
  /\ appended' = [appended EXCEPT !["tip_adjustment_history"] = @ + 1]

(* ---------------- RiskManager: the checks of the gate ---------------- *)

SessionExpired ==
  /\ limits.session_timeout_minutes > 0
  /\ now > limits.session_timeout_minutes * 60

DailyLimitHit(costs) == global_daily_spent + costs > limits.global_daily_spending_limit

BalanceInsufficient(costs) == balance_tracker.current_balance < costs

FailureCeilingHit == consecutive_failure_count >= limits.max_consecutive_failures

\* the tracker read of should_allow_strategy: "deny", "reenable" or "allow"
StrategyReadOutcome(k) ==
  LET tr == strategy_failures[k] IN
  IF tr.present /\ tr.is_disabled
  THEN IF tr.disabled_until = {} THEN "deny"
       ELSE IF \E u \in tr.disabled_until : now < u THEN "deny" ELSE "reenable"
  ELSE "allow"

(* ---------------- RiskManager: the admission call, step by step ---------------- *)

Min(a, b) == IF a < b THEN a ELSE b

Return(t, r) ==
  /\ call' = [call EXCEPT ![t].pc = IF r = "Ok" THEN "admitted" ELSE "rejected",
                          ![t].res = r]
  /\ admitted_total' = IF r = "Ok" THEN Min(admitted_total + call[t].costs, AdmitCap)
                        ELSE admitted_total

Pass(t, next) ==
  /\ call' = [call EXCEPT ![t].pc = next]
  /\ UNCHANGED admitted_total

gateFrame == <<auxVars, rpcVars, pipe, limits, now, balance_tracker, global_daily_spent, consecutive_failure_count,
               last_record, fail_streak, fail_since_reset, since_enabled, since_success>>

\* what a method leaves alone in the step that hands its risk event over
eventFrame == <<riskAux, rpcVars, pipe, limits, now, balance_tracker, global_daily_spent, consecutive_failure_count,
                last_record, fail_streak, fail_since_reset, since_enabled, since_success>>

\* the error a method returns after it has recorded the event
ErrorOf(event_type) ==
  CASE event_type = "SessionTimeout" -> "SessionTimeout"
    [] event_type = "DailyLimitExceeded" -> "DailySpendingLimitExceeded"
    [] event_type = "ConsecutiveFailures" -> "MaxConsecutiveFailures"
    [] event_type = "BalanceThresholdBreached" -> "BalanceTooLow"
    [] OTHER -> "none"

\* a check has failed: the call goes on to record_risk_event, where it waits
\* for the write lock of risk_events, and returns its error after the push
Refuse(t, event_type) ==
  /\ RiskEventRoom
  /\ call' = [call EXCEPT ![t].pc = "event", ![t].event = event_type]
  /\ UNCHANGED admitted_total

\* a method waiting in record_risk_event still holds the guard it took: the
\* write guard of the counter in record_failed_operation, of the balance
\* tracker in update_balance, of the trackers in record_strategy_failure
HoldsGuard(op) == \E t \in Tasks : call[t].pc = "event" /\ call[t].op = op

CounterLocked == HoldsGuard("record_failed_operation")

BalanceLocked == HoldsGuard("update_balance")

TrackersLocked == HoldsGuard("record_strategy_failure")

CallShouldAllowOperation(t, expected_profit, costs) ==
  /\ call[t].pc = "idle"
  /\ call' = [call EXCEPT ![t] = [IdleCall EXCEPT !.pc = "session", !.op = "operation",
                                                  !.costs = costs]]
  /\ UNCHANGED <<gateFrame, strategy_failures, admitted_total, riskLog>>

CallShouldAllowStrategy(t, k, expected_profit, costs) ==
  /\ call[t].pc = "idle"
  /\ call' = [call EXCEPT ![t] = [IdleCall EXCEPT !.pc = "session", !.op = "strategy",
                                                  !.kind = k, !.costs = costs]]
  /\ UNCHANGED <<gateFrame, strategy_failures, admitted_total, riskLog>>

\* 1. Check session timeout.  session_start_time.elapsed() is an error when
\* the system clock was set back to before the start of the session
CheckSession(t) ==
  /\ call[t].pc = "session"
  /\ \E clock_behind_start \in BOOLEAN :
       IF limits.session_timeout_minutes > 0 /\ clock_behind_start
       THEN Return(t, "InternalError")
       ELSE IF SessionExpired
            THEN Refuse(t, "SessionTimeout")
            ELSE Pass(t, "daily")
  /\ UNCHANGED <<eventFrame, strategy_failures, riskLog>>

\* the balance tested ahead of the daily spending limit
CheckDaily_balance_first(t) ==
  /\ call[t].pc = "daily"
  /\ IF BalanceInsufficient(call[t].costs)
     THEN Return(t, "InsufficientBalance")
     ELSE IF DailyLimitHit(call[t].costs)
          THEN Refuse(t, "DailyLimitExceeded")
          ELSE Pass(t, "balance")
  /\ UNCHANGED <<eventFrame, strategy_failures, riskLog>>

\* 2. Check daily spending limit; the read guard is dropped with the block
CheckDaily(t) ==
  /\ call[t].pc = "daily"
  /\ IF DailyLimitHit(call[t].costs)
     THEN Refuse(t, "DailyLimitExceeded")
     ELSE Pass(t, "balance")
  /\ UNCHANGED <<eventFrame, strategy_failures, riskLog>>

\* 3. Check balance is sufficient for operation
CheckBalance(t) ==
  /\ call[t].pc = "balance"
  /\ ~BalanceLocked
  /\ IF BalanceInsufficient(call[t].costs)
     THEN Return(t, "InsufficientBalance")
     ELSE Pass(t, "failures")
  /\ UNCHANGED <<gateFrame, strategy_failures, riskLog>>

\* 4. Check consecutive failures: the counter is read and the guard dropped;
\* at the ceiling the call goes on to record the event, else Ok(()) ends
\* should_allow_operation
CheckFailures(t) ==
  /\ call[t].pc = "failures"
  /\ ~CounterLocked
  /\ IF FailureCeilingHit
     THEN Refuse(t, "ConsecutiveFailures")
     ELSE IF call[t].op = "strategy" THEN Pass(t, "strategy") ELSE Return(t, "Ok")
  /\ UNCHANGED <<eventFrame, strategy_failures, riskLog>>

\* a strategy check that forgives the recorded failures of the kind it refuses
CheckStrategy_clears(t) ==
  /\ call[t].pc = "strategy"
  /\ ~TrackersLocked
  /\ LET o == StrategyReadOutcome(call[t].kind) IN
       IF o = "deny"
       THEN /\ Return(t, "StrategyDisabled")
            /\ strategy_failures' = [strategy_failures EXCEPT ![call[t].kind].failure_count = 0]
       ELSE /\ (IF o = "reenable" THEN Pass(t, "reenable") ELSE Return(t, "Ok"))
            /\ UNCHANGED strategy_failures
  /\ UNCHANGED <<gateFrame, riskLog>>

\* should_allow_strategy: the tracker is examined under the read lock
CheckStrategy(t) ==
  /\ call[t].pc = "strategy"
  /\ ~TrackersLocked
  /\ LET o == StrategyReadOutcome(call[t].kind) IN
       IF o = "deny" THEN Return(t, "StrategyDisabled")
       ELSE IF o = "reenable" THEN Pass(t, "reenable")
       ELSE Return(t, "Ok")
  /\ UNCHANGED <<gateFrame, strategy_failures, riskLog>>

\* should_allow_strategy: the read lock was dropped, the write lock is taken
\* and the tracker is re-enabled
ReenableStrategy(t) ==
  /\ call[t].pc = "reenable"
  /\ ~TrackersLocked
  /\ LET k == call[t].kind IN
       /\ strategy_failures' =
            IF strategy_failures[k].present
            THEN [strategy_failures EXCEPT ![k].is_disabled = FALSE, ![k].disabled_until = {}]
            ELSE strategy_failures
       /\ since_enabled' = IF strategy_failures[k].present /\ strategy_failures[k].is_disabled
                           THEN [since_enabled EXCEPT ![k] = 0] ELSE since_enabled
       /\ since_success' = IF strategy_failures[k].present /\ strategy_failures[k].is_disabled
                           THEN [since_success EXCEPT ![k] = 0] ELSE since_success
  /\ Return(t, "Ok")
  /\ UNCHANGED <<auxVars, rpcVars, pipe, limits, now, balance_tracker, global_daily_spent, consecutive_failure_count,
                 last_record, fail_streak, fail_since_reset>>

\* record_risk_event of the method task t is in: risk_events.write(), the
\* push and the drain; then the method returns its error and drops the guard
\* it held
PushRiskEvent(t) ==
  /\ call[t].pc = "event"
  /\ record_risk_event(call[t].event)
  /\ IF call[t].op \in {"operation", "strategy"}
     THEN /\ Return(t, ErrorOf(call[t].event))
          /\ UNCHANGED last_record
     ELSE /\ call' = [call EXCEPT ![t] = IdleCall]
          /\ last_record' = IF call[t].op = "record_strategy_failure" THEN last_record
                            ELSE ErrorOf(call[t].event)
          /\ UNCHANGED admitted_total
  /\ UNCHANGED <<riskAux, rpcVars, pipe, limits, now, balance_tracker, global_daily_spent, consecutive_failure_count,
                 strategy_failures, fail_streak, fail_since_reset, since_enabled, since_success>>

\* the caller drops the result of its call
Release(t) ==
  /\ call[t].pc \in {"admitted", "rejected"}
  /\ call' = [call EXCEPT ![t] = IdleCall]
  /\ UNCHANGED <<gateFrame, strategy_failures, admitted_total, riskLog>>

(* ---------------- RiskManager: the recording methods ---------------- *)

Quiet(t) == call[t].pc \in {"idle", "admitted", "rejected"}

initialize_balance(t, balance) ==
  /\ Quiet(t)
  /\ ~BalanceLocked
  /\ balance_tracker' = [balance_tracker EXCEPT !.initial_balance = balance,
                                                !.current_balance = balance]
  /\ UNCHANGED <<auxVars, rpcVars, pipe, limits, now, global_daily_spent, consecutive_failure_count,
                 strategy_failures, call, last_record, admitted_total, fail_streak,
                 fail_since_reset, since_enabled, since_success>>

\* current_balance is overwritten before the threshold is tested; under the
\* threshold the call goes on to record the event with the tracker's write
\* guard held, and returns BalanceTooLow after the push
update_balance(t, new_balance) ==
  /\ Quiet(t)
  /\ ~BalanceLocked
  /\ balance_tracker.total_spent + balance_tracker.total_earned <= MovedCap
  /\ LET old_balance == balance_tracker.current_balance IN
       IF new_balance < limits.min_balance_threshold
       THEN /\ RiskEventRoom
            /\ balance_tracker' = [balance_tracker EXCEPT !.current_balance = new_balance]
            /\ call' = [call EXCEPT ![t] = [IdleCall EXCEPT !.pc = "event",
                                                            !.op = "update_balance",
                                                            !.event = "BalanceThresholdBreached"]]
            /\ UNCHANGED last_record
       ELSE /\ balance_tracker' =
                 [balance_tracker EXCEPT
                    !.current_balance = new_balance,
                    !.total_spent = IF new_balance < old_balance
                                    THEN @ + (old_balance - new_balance) ELSE @,
                    !.total_earned = IF new_balance < old_balance
                                     THEN @ ELSE @ + (new_balance - old_balance)]
            /\ last_record' = "Ok"
            /\ UNCHANGED call
  /\ UNCHANGED <<riskAux, riskLog, rpcVars, pipe, limits, now, global_daily_spent, consecutive_failure_count,
                 strategy_failures, admitted_total, fail_streak, fail_since_reset, since_enabled, since_success>>

\* Caller t records the outcome of its attempt, which ends the attempt.  The
\* two write locks are taken one after the other: the counter is zeroed
\* here, and a negative profit is added to the spend in a second step, other
\* callers running in between.  The spend sum is explored up to one recorded
\* cost past the limit.
record_successful_operation(t, profit) ==
  /\ Quiet(t)
  /\ ~CounterLocked
  /\ profit < 0 => global_daily_spent <= limits.global_daily_spending_limit
  /\ consecutive_failure_count' = 0
  /\ call' = [call EXCEPT ![t] =
                IF profit < 0
                THEN [IdleCall EXCEPT !.pc = "spend", !.op = "record_successful_operation",
                                      !.costs = 0 - profit]
                ELSE IdleCall]
  /\ fail_streak' = 0
  /\ fail_since_reset' = 0
  /\ since_success' = [k \in Kinds |-> 0]
  /\ UNCHANGED <<auxVars, rpcVars, pipe, limits, now, balance_tracker, global_daily_spent,
                 strategy_failures, last_record, admitted_total, since_enabled>>

\* record_successful_operation, its second write lock: *daily_spent +=
\* profit.abs()
RecordSpend(t) ==
  /\ call[t].pc = "spend"
  /\ global_daily_spent' = global_daily_spent + call[t].costs
  /\ call' = [call EXCEPT ![t] = IdleCall]
  /\ UNCHANGED <<auxVars, rpcVars, pipe, limits, now, balance_tracker, consecutive_failure_count,
                 strategy_failures, last_record, admitted_total, fail_streak,
                 fail_since_reset, since_enabled, since_success>>

\* the ceiling test of record_failed_operation done with > in place of >=
record_failed_operation_late(t) ==
  /\ Quiet(t)
  /\ ~CounterLocked
  /\ consecutive_failure_count < FailureCap
  /\ consecutive_failure_count' = consecutive_failure_count + 1
  /\ IF consecutive_failure_count + 1 > limits.max_consecutive_failures
     THEN /\ RiskEventRoom
          /\ call' = [call EXCEPT ![t] = [IdleCall EXCEPT !.pc = "event",
                                                          !.op = "record_failed_operation",
                                                          !.event = "ConsecutiveFailures"]]
          /\ UNCHANGED last_record
     ELSE /\ call' = [call EXCEPT ![t] = IdleCall]
          /\ last_record' = "Ok"
  /\ fail_streak' = Min(fail_streak + 1, FailureCap)
  /\ fail_since_reset' = Min(fail_since_reset + 1, FailureCap)
  /\ UNCHANGED <<riskAux, riskLog, rpcVars, pipe, limits, now, balance_tracker, global_daily_spent, strategy_failures,
                 admitted_total, since_enabled, since_success>>

\* Caller t records a failed attempt, which ends the attempt: the counter is
\* incremented under its write lock, and at the ceiling the call goes on to
\* record the event with the guard held and returns MaxConsecutiveFailures
\* after the push
record_failed_operation(t) ==
  /\ Quiet(t)
  /\ ~CounterLocked
  /\ consecutive_failure_count < FailureCap
  /\ consecutive_failure_count' = consecutive_failure_count + 1
  /\ IF consecutive_failure_count + 1 >= limits.max_consecutive_failures
     THEN /\ RiskEventRoom
          /\ call' = [call EXCEPT ![t] = [IdleCall EXCEPT !.pc = "event",
                                                          !.op = "record_failed_operation",
                                                          !.event = "ConsecutiveFailures"]]
          /\ UNCHANGED last_record
     ELSE /\ call' = [call EXCEPT ![t] = IdleCall]
          /\ last_record' = "Ok"
  /\ fail_streak' = Min(fail_streak + 1, FailureCap)
  /\ fail_since_reset' = Min(fail_since_reset + 1, FailureCap)
  /\ UNCHANGED <<riskAux, riskLog, rpcVars, pipe, limits, now, balance_tracker, global_daily_spent, strategy_failures,
                 admitted_total, since_enabled, since_success>>

\* Task t records a failure of kind k under the write lock of the trackers;
\* the failure that disables the kind goes on to record the event with the
\* guard held
record_strategy_failure(t, k) ==
  LET tr == IF strategy_failures[k].present THEN strategy_failures[k] ELSE NewTracker
      n == tr.failure_count + 1
      disables == n >= limits.max_strategy_failures /\ ~tr.is_disabled
  IN
  /\ call[t].pc = "idle"
  /\ ~TrackersLocked
  /\ tr.failure_count < StrategyFailureCap
  /\ strategy_failures' =
       [strategy_failures EXCEPT ![k] =
          IF disables
          THEN [tr EXCEPT !.failure_count = n, !.is_disabled = TRUE,
                          !.disabled_until = {now + DisableSecs}]
          ELSE [tr EXCEPT !.failure_count = n]]
  /\ IF disables
     THEN /\ RiskEventRoom
          /\ call' = [call EXCEPT ![t] = [IdleCall EXCEPT !.pc = "event",
                                                          !.op = "record_strategy_failure",
                                                          !.kind = k,
                                                          !.event = "StrategyDisabled"]]
     ELSE UNCHANGED call
  /\ since_enabled' = [since_enabled EXCEPT ![k] = Min(@ + 1, StrategyFailureCap)]
  /\ since_success' = [since_success EXCEPT ![k] = Min(@ + 1, StrategyFailureCap)]
  /\ UNCHANGED <<riskAux, riskLog, rpcVars, pipe, limits, now, balance_tracker, global_daily_spent,
                 consecutive_failure_count, last_record, admitted_total, fail_streak, fail_since_reset>>

\* Manual override to enable a disabled strategy
enable_strategy(k) ==
  /\ ~TrackersLocked
  /\ strategy_failures' =
       IF strategy_failures[k].present
       THEN [strategy_failures EXCEPT ![k].is_disabled = FALSE, ![k].disabled_until = {},
                                      ![k].failure_count = 0]
       ELSE strategy_failures
  /\ since_enabled' = [since_enabled EXCEPT ![k] = 0]
  /\ since_success' = [since_success EXCEPT ![k] = 0]
  /\ UNCHANGED <<auxVars, rpcVars, pipe, limits, now, balance_tracker, global_daily_spent, consecutive_failure_count,
                 call, last_record, admitted_total, fail_streak, fail_since_reset>>

\* Reset risk state (for testing or manual override), called by the
\* operator's task: the counter is zeroed under its own lock; the trackers
\* are reset in a second step, other callers running in between
reset_risk_state ==
  /\ call[Operator].pc = "idle"
  /\ ~CounterLocked
  /\ consecutive_failure_count' = 0
  /\ fail_since_reset' = 0
  /\ call' = [call EXCEPT ![Operator].pc = "trackers", ![Operator].op = "reset_risk_state"]
  /\ UNCHANGED <<auxVars, rpcVars, pipe, limits, now, balance_tracker, global_daily_spent,
                 strategy_failures, last_record, admitted_total, fail_streak,
                 since_enabled, since_success>>

\* reset_risk_state, its last write lock: every tracker is reset
ResetTrackers ==
  /\ call[Operator].pc = "trackers"
  /\ ~TrackersLocked
  /\ strategy_failures' =
       [k \in Kinds |->
          IF strategy_failures[k].present
          THEN [strategy_failures[k] EXCEPT !.failure_count = 0, !.is_disabled = FALSE,
                                            !.disabled_until = {}]
          ELSE strategy_failures[k]]
  /\ since_enabled' = [k \in Kinds |-> 0]
  /\ since_success' = [k \in Kinds |-> 0]
  /\ call' = [call EXCEPT ![Operator] = IdleCall]
  /\ UNCHANGED <<auxVars, rpcVars, pipe, limits, now, balance_tracker, global_daily_spent,
                 consecutive_failure_count, last_record, admitted_total, fail_streak,
                 fail_since_reset>>

Tick ==
  /\ now + TickSecs <= MaxTime
  /\ now' = now + TickSecs
  /\ UNCHANGED <<auxVars, rpcVars, pipe, limits, balance_tracker, global_daily_spent, consecutive_failure_count,
                 strategy_failures, call, last_record, admitted_total, fail_streak,
                 fail_since_reset, since_enabled, since_success>>

\* a whole day goes by
DayPasses ==
  /\ now + DaySecs <= MaxDays * DaySecs
  /\ now' = now + DaySecs
  /\ UNCHANGED <<auxVars, rpcVars, pipe, limits, balance_tracker, global_daily_spent, consecutive_failure_count,
                 strategy_failures, call, last_record, admitted_total, fail_streak,
                 fail_since_reset, since_enabled, since_success>>

(* ---------------- RpcManager ---------------- *)

\* a preference order that puts the general-purpose endpoint first
Preference_drpc_first(task_type) ==
  IF task_type = "Execute" THEN <<"Drpc", "Jito">> ELSE <<"Drpc", "Helius", "Jito">>

\* the endpoints get_best_rpc looks at for a task type, in its order of preference
Preference(task_type) ==
  IF task_type = "Execute" THEN <<"Jito", "Drpc">> ELSE <<"Helius", "Drpc", "Jito">>

\* RpcManager::get_best_rpc on the endpoint table eps: the first endpoint of
\* the preference order whose is_healthy is set, "none" for None
get_best_rpc(eps, task_type) ==
  LET pref == Preference(task_type)
      healthy == {i \in 1..Len(pref) : eps[pref[i]].is_healthy}
  IN IF healthy = {} THEN "none"
     ELSE pref[CHOOSE i \in healthy : \A j \in healthy : i <= j]

\* RpcManager::update_health, success rate in thousandths
update_health(eps, e, latency_ms, success) ==
  [eps EXCEPT ![e] = [success_rate |-> (9 * eps[e].success_rate
                                          + (IF success THEN 1000 ELSE 0)) \div 10,
                      is_healthy |-> success /\ latency_ms < MaxHealthyLatencyMs]]

\* the effect of RpcManager::make_request on the endpoint table: a request that
\* fails returns its error before update_health is reached
make_request(eps, e, ok, latency_ms) ==
  IF ok THEN update_health(eps, e, latency_ms, TRUE) ELSE eps

\* the effect of RpcManager::get_recent_prioritization_fees on the table
get_recent_prioritization_fees(eps, ok, latency_ms) ==
  LET e == get_best_rpc(eps, "Read")
  IN IF e = "none" THEN eps ELSE make_request(eps, e, ok, latency_ms)

\* caller c asks for the best endpoint of a task type
GetBestRpc(c, task_type) ==
  /\ req[c].res # "pending"
  /\ req[c].calls < MaxCalls
  /\ LET e == get_best_rpc(endpoints, task_type) IN
       req' = [req EXCEPT ![c] = [role |-> task_type, ep |-> e,
                                  res |-> IF e = "none" THEN "NoHealthyEndpoint" ELSE "pending",
                                  calls |-> req[c].calls]]
  /\ UNCHANGED <<auxVars, riskVars, pipe, endpoints, checked, hc>>

\* caller c sends its request to the endpoint it was given
RequestChosen(c) ==
  /\ req[c].res = "pending"
  /\ \E ok \in BOOLEAN, latency_ms \in Latencies :
       /\ endpoints' = make_request(endpoints, req[c].ep, ok, latency_ms)
       /\ req' = [req EXCEPT ![c].res = IF ok THEN "Ok" ELSE "Err",
                              ![c].calls = @ + 1]
  /\ UNCHANGED <<auxVars, riskVars, pipe, checked, hc>>

\* caller c sends a request to an endpoint it names itself (get_sol_balance
\* names Helius, check_jito_health names Jito)
RequestDirect(c, e) ==
  /\ req[c].res # "pending"
  /\ req[c].calls < MaxCalls
  /\ \E ok \in BOOLEAN, latency_ms \in Latencies :
       /\ endpoints' = make_request(endpoints, e, ok, latency_ms)
       /\ req' = [req EXCEPT ![c] = [role |-> "direct", ep |-> e,
                                     res |-> IF ok THEN "Ok" ELSE "Err",
                                     calls |-> req[c].calls + 1]]
  /\ UNCHANGED <<auxVars, riskVars, pipe, checked, hc>>

\* start_health_checks: the task wakes up and run_health_checks begins
HealthCheckStart ==
  /\ hc.pc = "sleep"
  /\ hc.rounds < MaxRounds
  /\ hc' = [pc |-> "request", at |-> 1, success |-> FALSE, rounds |-> hc.rounds + 1]
  /\ UNCHANGED <<auxVars, riskVars, pipe, endpoints, checked, req>>

\* health_check: the getHealth request goes through make_request, then the
\* answer is read
HealthCheckRequest ==
  /\ hc.pc = "request"
  /\ \E ok \in BOOLEAN, latency_ms \in Latencies, health_ok \in BOOLEAN :
       /\ endpoints' = make_request(endpoints, EndpointOrder[hc.at], ok, latency_ms)
       /\ hc' = [hc EXCEPT !.pc = "write", !.success = ok /\ health_ok]
  /\ UNCHANGED <<auxVars, riskVars, pipe, checked, req>>

\* run_health_checks: the status returned by health_check replaces the record
HealthCheckWrite ==
  /\ hc.pc = "write"
  /\ LET e == EndpointOrder[hc.at] IN
       /\ endpoints' = [endpoints EXCEPT ![e] =
                          [success_rate |-> IF hc.success THEN 1000 ELSE 0,
                           is_healthy |-> hc.success]]
       /\ checked' = [checked EXCEPT ![e] = IF hc.success THEN "healthy" ELSE "unhealthy"]
  /\ hc' = IF hc.at < Len(EndpointOrder)
           THEN [hc EXCEPT !.pc = "request", !.at = @ + 1, !.success = FALSE]
           ELSE [hc EXCEPT !.pc = "sleep", !.at = 1, !.success = FALSE]
  /\ UNCHANGED <<auxVars, riskVars, pipe, req>>

(* ---------------- OpportunityEvaluator: the caches ---------------- *)

cacheFrame == <<riskVars, pipe, rpcVars, mon, metricVars, bootVars, analysis, logVars, legacyVars>>

\* Duration::as_secs: whole seconds, the fraction dropped
as_secs(ticks) == ticks \div TicksPerSec

\* the time to live of an entry: pool_states holds the pairs, price_cache the mints
Ttl(key) == IF key \in PoolKeys THEN PoolTtlSecs ELSE PriceTtlSecs

\* a freshness test that still accepts an entry in the second after its window
is_fresh_inclusive(key, last_updated, t) == as_secs(t - last_updated) <= Ttl(key)

\* cached.last_updated.elapsed().unwrap_or_default().as_secs() < ttl
is_fresh(key, last_updated, t) == as_secs(t - last_updated) < Ttl(key)

CacheTick ==
  /\ ctime < MaxCacheTime
  /\ ctime' = ctime + 1
  /\ UNCHANGED <<cacheFrame, cache, lookup>>

\* get_pool_state / get_token_price up to the fetch: under the read lock, a
\* fresh entry is returned, anything else sends the call to the fetch
lookup_cache(c, key) ==
  IF \E last_updated \in cache[key] : is_fresh(key, last_updated, ctime)
  THEN lookup' = [lookup EXCEPT ![c] = [IdleLookup EXCEPT !.key = key, !.res = "cached"]]
  ELSE lookup' = [lookup EXCEPT ![c] = [IdleLookup EXCEPT !.pc = "fetch", !.key = key]]

\* a caller of get_pool_state / get_token_price starts its lookup
LookupCache(c, key) ==
  /\ lookup[c].pc = "idle"
  /\ lookup_cache(c, key)
  /\ UNCHANGED <<cacheFrame, ctime, cache>>

\* fetch_fresh_pool_state / fetch_fresh_price: the value is stamped with the
\* time of the fetch
FetchFresh(c) ==
  /\ lookup[c].pc = "fetch"
  /\ lookup' = [lookup EXCEPT ![c].pc = "write", ![c].fetched = ctime]
  /\ UNCHANGED <<cacheFrame, ctime, cache>>

\* the insert under the write lock, and the return of the fetched value
WriteCache(c) ==
  /\ lookup[c].pc = "write"
  /\ cache' = [cache EXCEPT ![lookup[c].key] = {lookup[c].fetched}]
  /\ lookup' = [lookup EXCEPT ![c] = [IdleLookup EXCEPT !.key = lookup[c].key, !.res = "fetched"]]
  /\ UNCHANGED <<cacheFrame, ctime>>

\* the lookup of caller c has returned its value
LookupReturned(c) == lookup[c].pc = "idle" /\ lookup[c].res # "none"

(* ---------------- detection-to-execution path ---------------- *)

Max(a, b) == IF a > b THEN a ELSE b

\* p1/q1 <= p2/q2 for naturals with q1 > 0 and q2 > 0, decided on the whole
\* parts and then on the remainders, so that no product is formed
RECURSIVE FracLeq(_, _, _, _)
FracLeq(p1, q1, p2, q2) ==
  IF p1 \div q1 # p2 \div q2 THEN p1 \div q1 < p2 \div q2
  ELSE IF p1 % q1 = 0 THEN TRUE
  ELSE IF p2 % q2 = 0 THEN FALSE
  ELSE FracLeq(q2, p2 % q2, q1, p1 % q1)

\* a * b <= c * d for naturals, the products not formed
MulLeq(a, b, c, d) ==
  IF a = 0 \/ b = 0 THEN TRUE
  ELSE IF c = 0 \/ d = 0 THEN FALSE
  ELSE FracLeq(a, c, d, b)

\* x > y and x >= y on f64 values whose exact difference is diff: where the
\* exact values are equal, the sign of the rounding error of the computed
\* ones decides
f64_gt(diff, rounding) == diff > 0 \/ (diff = 0 /\ rounding > 0)

f64_ge(diff, rounding) == diff > 0 \/ (diff = 0 /\ rounding >= 0)

\* the task is over: nothing of the stage it ended in is left
Finish(t, r) ==
  pipe' = [pipe EXCEPT ![t].pc = "done", ![t].result = r, ![t].step = "none",
                       ![t].opps = <<>>, ![t].rq = "none", ![t].fees = <<>>]

\* what the steps of a task leave alone next to the risk layer, the
\* RpcManager, the caches and the logs
pipeAux == <<mon, metricVars, bootVars, analysis, legacyVars>>

\* the same without the callers of the MetricsCollector, for the steps that
\* may hand a strategy result to it
execAux == <<mon, system_metrics, mlocks, bootVars, analysis, legacyVars>>

\* the task as Finish leaves it
Ended(task) == [task EXCEPT !.step = "none", !.opps = <<>>, !.rq = "none", !.fees = <<>>]

\* execute_strategy returns r to its caller.  analyze_and_execute_opportunity
\* returns on an Err; every Ok result, a success or not, it hands to
\* MetricsCollector::record_strategy_execution, which starts by waiting for
\* the write lock of system_metrics.  A caller of the executor's public
\* interface has the result as it is
StrategyReturns(t, task, r) ==
  IF pipe[t].origin = "stream" /\ r # "error"
  THEN /\ pipe' = [pipe EXCEPT ![t] = [task EXCEPT !.pc = "x_metrics", !.result = r]]
       /\ mc' = [mc EXCEPT ![t] = [op |-> "record_strategy_execution", arg |-> r = "success",
                                   pc |-> "system_metrics"]]
  ELSE /\ pipe' = [pipe EXCEPT ![t] = [task EXCEPT !.pc = "done", !.result = r]]
       /\ mc' = mc

\* a signature notification spawns analyze_and_execute_opportunity
Detect(t) ==
  /\ pipe[t].pc = "idle"
  /\ pipe' = [pipe EXCEPT ![t] = [IdleTask EXCEPT !.pc = "fetch", !.origin = "stream"]]
  /\ UNCHANGED <<auxVars, riskVars, rpcVars>>

\* a fetch whose failure lets the task go on without the transaction details
FetchTransactionDetails_proceeds(t) ==
  /\ pipe[t].pc = "fetch"
  /\ \E fetched \in BOOLEAN :
       pipe' = [pipe EXCEPT ![t].pc = "evaluate", ![t].target = fetched]
  /\ UNCHANGED <<auxVars, riskVars, rpcVars>>

\* fetch_transaction_details_with_timeout: an error or a timeout ends the task
FetchTransactionDetails(t) ==
  /\ pipe[t].pc = "fetch"
  /\ \E fetched \in BOOLEAN :
       IF fetched
       THEN pipe' = [pipe EXCEPT ![t].pc = "evaluate", ![t].target = TRUE]
       ELSE Finish(t, "no_details")
  /\ UNCHANGED <<auxVars, riskVars, rpcVars>>

\* estimate_swap_profitability: ten times the fee of the transaction, 0.001
\* SOL when the transaction shows no fee; the fee in lamports, the estimate
\* in micro-SOL
estimate_swap_profitability(fee) ==
  IF fee = {} THEN DefaultSwapEstimate ELSE (CHOOSE f \in fee : TRUE) \div 100

\* identify_swap_opportunity on an instruction of Jupiter, Raydium or Orca
identify_swap_opportunity(fee) ==
  [otype |-> "Frontrun", estimated_profit |-> estimate_swap_profitability(fee),
   trade_size |-> SwapTradeSize]

\* identify_arbitrage_from_balances on the balance change of one mint: an
\* opportunity when the change times the price is above the threshold
identify_arbitrage_from_balances(change) ==
  IF change.estimated_profit > opportunity_threshold
  THEN <<[otype |-> "Arbitrage", estimated_profit |-> change.estimated_profit,
          trade_size |-> change.trade_size]>>
  ELSE <<>>

\* analyze_transaction_for_mev, and the test of evaluate_opportunity's loop
\* on each estimate: the opportunities of the swap instructions in their
\* order, then the one of the balance changes
analyze_transaction_for_mev(swaps, fee, balance) ==
  LET potential_opportunities ==
        [i \in 1..swaps |-> identify_swap_opportunity(fee)]
          \o (IF balance = {} THEN <<>>
              ELSE identify_arbitrage_from_balances(CHOOSE change \in balance : TRUE))
  IN SelectSeq(potential_opportunities,
               LAMBDA o : o.estimated_profit >= opportunity_threshold)

\* the loop of evaluate_opportunity goes to the next opportunity; Ok(None)
\* when there is none left
NextOpportunity(t, opps) ==
  IF opps = <<>> THEN Finish(t, "no_opportunity")
  ELSE pipe' = [pipe EXCEPT ![t].step = "verify", ![t].opps = opps, ![t].rq = "none"]

\* OpportunityEvaluator::evaluate_opportunity begins: the transaction is
\* analysed, and a balance change of a mint has get_token_price look the
\* price of the mint up
EvaluateOpportunity(t) ==
  /\ pipe[t].pc = "evaluate" /\ pipe[t].step = "none"
  /\ lookup[t].pc = "idle"
  /\ \E swaps \in 0..MaxSwapInstructions, fee \in TxFees, balance \in BalanceChanges :
       LET opps == analyze_transaction_for_mev(swaps, fee, balance) IN
         IF balance = {}
         THEN /\ NextOpportunity(t, opps)
              /\ UNCHANGED lookup
         ELSE /\ pipe' = [pipe EXCEPT ![t].step = "price", ![t].opps = opps]
              /\ lookup_cache(t, "MINT")
  /\ UNCHANGED <<pipeAux, logVars, riskVars, rpcVars, ctime, cache>>

\* get_token_price has returned, and the loop of evaluate_opportunity begins
IdentifyArbitrageFromBalances(t) ==
  /\ pipe[t].pc = "evaluate" /\ pipe[t].step = "price"
  /\ LookupReturned(t)
  /\ NextOpportunity(t, pipe[t].opps)
  /\ UNCHANGED <<auxVars, riskVars, rpcVars>>

\* the key of pool_states for the pair of an opportunity
PoolKey(o) == IF o.otype = "Frontrun" THEN "TOKEN_A_TOKEN_B" ELSE "MINT_SOL"

\* verify_opportunity begins: get_pool_state looks the pool of the pair up
VerifyOpportunity(t) ==
  /\ pipe[t].pc = "evaluate" /\ pipe[t].step = "verify"
  /\ lookup[t].pc = "idle"
  /\ lookup_cache(t, PoolKey(pipe[t].opps[1]))
  /\ pipe' = [pipe EXCEPT ![t].step = "pool"]
  /\ UNCHANGED <<pipeAux, logVars, riskVars, rpcVars, ctime, cache>>

\* has_sufficient_liquidity: pool.liquidity >= trade_size_sol * 10 with the
\* liquidity fetch_fresh_pool_state gives every pool; trade_size in lamports
has_sufficient_liquidity(trade_size) ==
  \/ trade_size \div 100000000 < FetchedLiquidity
  \/ trade_size \div 100000000 = FetchedLiquidity /\ trade_size % 100000000 = 0

\* verify_opportunity once the pool is known: too little liquidity sends the
\* loop to the next opportunity; else calculate_realistic_profit asks for a
\* fee estimate, whose get_recent_prioritization_fees picks its endpoint:
\* the Err of a table with no healthy read endpoint ends the evaluation
CalculateRealisticProfit(t) ==
  /\ pipe[t].pc = "evaluate" /\ pipe[t].step = "pool"
  /\ LookupReturned(t)
  /\ IF ~has_sufficient_liquidity(pipe[t].opps[1].trade_size)
     THEN NextOpportunity(t, Tail(pipe[t].opps))
     ELSE LET e == get_best_rpc(endpoints, "Read") IN
            IF e = "none" THEN Finish(t, "no_opportunity")
            ELSE pipe' = [pipe EXCEPT ![t].step = "fees", ![t].rq = e]
  /\ UNCHANGED <<auxVars, riskVars, rpcVars>>

\* calculate_priority_fee: 0.001 SOL without samples, else the average
\* sample times a multiplier of the opportunity value, at most 0.01 SOL; the
\* average in lamports, the fee in micro-SOL
calculate_priority_fee(samples, opportunity_value) ==
  IF samples = {} THEN 1000
  ELSE LET avg_fee == CHOOSE f \in samples : TRUE
           multiplier == IF opportunity_value > 1000000 THEN 15
                         ELSE IF opportunity_value > 100000 THEN 12 ELSE 10
       IN Min(((avg_fee \div 1000) * multiplier) \div 10, 10000)

\* assess_bundle_competition and calculate_dynamic_jito_tip
calculate_dynamic_jito_tip(samples, opportunity_value) ==
  LET avg_fee == IF samples = {} THEN 0 ELSE CHOOSE f \in samples : TRUE
      base_tip == IF avg_fee > 100000000 THEN 3000
                  ELSE IF avg_fee > 50000000 THEN 2000
                  ELSE IF avg_fee > 10000000 THEN 1000 ELSE 500
      value_multiplier == IF opportunity_value > 1000000 THEN 15
                          ELSE IF opportunity_value > 500000 THEN 12 ELSE 10
  IN (base_tip * value_multiplier) \div 10

\* FeeCalculator::calculate_dynamic_fees on the fee samples it was answered
\* with, for an opportunity of the given value
calculate_dynamic_fees(samples, opportunity_value) ==
  LET transaction_fee == BaseTransactionFee
      priority_fee == calculate_priority_fee(samples, opportunity_value)
      jito_tip == calculate_dynamic_jito_tip(samples, opportunity_value)
  IN [transaction_fee |-> transaction_fee, jito_tip |-> jito_tip,
      priority_fee |-> priority_fee,
      total_execution_cost |-> transaction_fee + priority_fee + jito_tip]

\* calculate_realistic_profit and the test of verify_opportunity on it: the
\* estimate less its slippage loss, trade_size_sol / liquidity * 0.1 of it,
\* less the cost, is at least the threshold.  The loss is the estimate times
\* trade_size / (5 * 10^13): under a micro-SOL for the estimates and trades
\* followed here, and 0 only for a trade of size 0
verified_profit_meets(estimated_profit, trade_size, cost, rounding) ==
  IF trade_size = 0
  THEN f64_ge(estimated_profit - cost - opportunity_threshold, rounding)
  ELSE estimated_profit - cost - opportunity_threshold > 0

\* whether a fee query gets its samples: the endpoint answered, and its
\* answer has no "error" member
fees_fetched(answer) == answer = "result"

\* the request of calculate_realistic_profit is answered: an answer without
\* samples is the Err that ends the evaluation; with them, the first
\* opportunity whose realistic profit reaches the threshold is returned
EstimateTransactionFees(t) ==
  /\ pipe[t].pc = "evaluate" /\ pipe[t].step = "fees"
  /\ \E answer \in Answers, latency_ms \in Latencies, samples \in FeeSamples,
        rounding \in Roundings :
       LET o == pipe[t].opps[1]
           cost == calculate_dynamic_fees(samples, EvaluatorOpportunityValue).total_execution_cost
       IN /\ endpoints' = make_request(endpoints, pipe[t].rq, answer # "failed", latency_ms)
          /\ IF ~fees_fetched(answer) THEN Finish(t, "no_opportunity")
             ELSE IF verified_profit_meets(o.estimated_profit, o.trade_size, cost, rounding)
             THEN pipe' = [pipe EXCEPT ![t].pc = "simulate", ![t].step = "none",
                                       ![t].opps = <<>>, ![t].rq = "none",
                                       ![t].otype = o.otype,
                                       ![t].estimated_profit = o.estimated_profit,
                                       ![t].trade_size = o.trade_size]
             ELSE NextOpportunity(t, Tail(pipe[t].opps))
  /\ UNCHANGED <<auxVars, riskVars, checked, hc, req>>

\* calculate_slippage: a tenth of the trade's share of the pool, at most 0.05
\* SOL; a trade larger than the pool is at the cap
calculate_slippage(trade_size) ==
  IF trade_size > PoolSize THEN 50000
  ELSE Min((trade_size * 100000) \div PoolSize, 50000)

\* calculate_price_impact: the same share, uncapped
calculate_price_impact(trade_size) ==
  (trade_size \div PoolSize) * 100000 + ((trade_size % PoolSize) * 100000) \div PoolSize

sufficient_pool_depth(trade_size) == PoolSize >= trade_size * min_pool_ratio

\* calculate_confidence_score, in hundredths; net_profit is the f64
\* difference of simulate_scenario, compared with 0.01 and with 0.0
calculate_confidence_score(net_profit, slippage, price_impact, rounding) ==
  Min(100,
      (IF PoolSize > 100 THEN 30 ELSE 10)
      + (IF f64_gt(net_profit - 10000, rounding) THEN 30
         ELSE IF f64_gt(net_profit, rounding) THEN 10 ELSE 0)
      + (IF slippage < 10000 THEN 20 ELSE IF slippage < 30000 THEN 10 ELSE 0)
      + (IF price_impact < 20000 THEN 20 ELSE IF price_impact < 50000 THEN 10 ELSE 0))

\* estimate_transaction_fees: 0.003 with fee samples, 0.005 without
estimate_transaction_fees(fees_ok) == IF fees_ok THEN AnalysedFee ELSE FallbackFee

\* price_impact <= 0.03 * gross_profit on f64 values, the product rounded
price_impact_within(price_impact, gross_profit, rounding) ==
  IF MulLeq(price_impact, 100, 3, gross_profit) /\ MulLeq(3, gross_profit, price_impact, 100)
  THEN f64_ge(0, rounding)
  ELSE MulLeq(price_impact, 100, 3, gross_profit)

\* simulate_scenario; the scenario's own slippage tolerance and priority fee
\* are not used by it.  net_profit is an f64 difference: where it is exactly
\* 0 or 0.01 SOL the computed value is above or below as the rounding of the
\* sum of the costs and of the subtraction falls.  A net profit on such a
\* value and a price impact of exactly 0.03 of the gross profit do not occur
\* for the same trade, so one rounding stands for both
simulate_scenario(gross_profit, trade_size, fees_ok, rounding) ==
  LET slippage == calculate_slippage(trade_size)
      estimated_fees == estimate_transaction_fees(fees_ok)
      total_costs == estimated_fees + DynamicJitoTip + slippage + safety_margin
      net_profit == gross_profit - total_costs
      price_impact == calculate_price_impact(trade_size)
  IN [is_valid |-> /\ f64_gt(net_profit, rounding)
                   /\ price_impact_within(price_impact, gross_profit, rounding)
                   /\ sufficient_pool_depth(trade_size),
      net_profit |-> net_profit,
      estimated_fees |-> estimated_fees,
      jito_tip |-> DynamicJitoTip,
      slippage |-> slippage,
      safety_margin |-> safety_margin,
      confidence_score |-> calculate_confidence_score(net_profit, slippage, price_impact,
                                                      rounding)]

\* the valid result max_by picks: of the greatest net profit, the last such
BestValid(results) ==
  LET valid == {i \in DOMAIN results : results[i].is_valid}
  IN CHOOSE i \in valid :
       \A j \in valid : \/ results[j].net_profit < results[i].net_profit
                        \/ (results[j].net_profit = results[i].net_profit /\ j <= i)

\* validate_net_profit, on results whose net profits were computed with the
\* given rounding
validate_net_profit(results, rounding) ==
  IF \E i \in DOMAIN results : results[i].is_valid
  THEN LET result == results[BestValid(results)]
       IN [is_profitable |-> /\ f64_gt(result.net_profit, rounding)
                             /\ result.confidence_score >= min_confidence_threshold,
           net_profit |-> result.net_profit,
           total_costs |-> result.estimated_fees + result.jito_tip + result.slippage
                             + result.safety_margin]
  ELSE [is_profitable |-> FALSE, net_profit |-> 0, total_costs |-> 0]

\* what the steps of simulate_and_validate leave alone next to the task, the
\* RpcManager and the result on record
simFrame == <<riskVars, mon, metricVars, cacheVars, bootVars, logVars, legacyVars>>

\* EnhancedTransactionSimulator::simulate_and_validate called on an
\* opportunity by a caller of the simulator's public interface
CallSimulateAndValidate(t, gross_profit, trade_size) ==
  /\ pipe[t].pc \in {"idle", "done"}
  /\ pipe' = [pipe EXCEPT ![t] = [IdleTask EXCEPT !.pc = "simulate",
                                                  !.origin = "simulate_and_validate",
                                                  !.estimated_profit = gross_profit,
                                                  !.trade_size = trade_size]]
  /\ UNCHANGED <<auxVars, riskVars, rpcVars>>

\* a scenario of run_simulation_variations has its fee estimate; after the
\* last one simulate_and_validate returns the validation, which carries the
\* net profit of the best valid scenario, 0 when no scenario is valid.  It
\* has no Err of its own, and is_profitable is not looked at by
\* analyze_and_execute_opportunity; the result of a call of the public
\* interface is kept on record
ScenarioSimulated(t, fees_ok) ==
  LET fees == Append(pipe[t].fees, fees_ok) IN
    IF Len(fees) < Scenarios
    THEN /\ pipe' = [pipe EXCEPT ![t].fees = fees, ![t].rq = "none"]
         /\ UNCHANGED analysis
    ELSE \E rounding \in Roundings :
           LET results == [i \in 1..Scenarios |->
                             simulate_scenario(pipe[t].estimated_profit, pipe[t].trade_size,
                                               fees[i], rounding)]
               validation == validate_net_profit(results, rounding)
               direct == pipe[t].origin = "simulate_and_validate"
           IN /\ pipe' = [pipe EXCEPT ![t].pc = IF direct THEN "done" ELSE "filter",
                                      ![t].result = IF direct THEN "validated" ELSE @,
                                      ![t].fees = <<>>, ![t].rq = "none",
                                      ![t].validated_net = validation.net_profit,
                                      ![t].is_profitable = validation.is_profitable]
              /\ analysis' = IF direct
                             THEN [by |-> "validate_net_profit",
                                   gross_profit |-> pipe[t].estimated_profit,
                                   results |-> results, out |-> validation]
                             ELSE analysis

\* EnhancedTransactionSimulator::simulate_and_validate, the next scenario:
\* its estimate_transaction_fees asks for the recent prioritization fees,
\* get_best_rpc picks the endpoint, and with no healthy read endpoint the
\* scenario falls back to the fixed estimate
SimulateAndValidate(t) ==
  /\ pipe[t].pc = "simulate" /\ pipe[t].rq = "none"
  /\ LET e == get_best_rpc(endpoints, "Read") IN
       IF e = "none" THEN ScenarioSimulated(t, FALSE)
       ELSE pipe' = [pipe EXCEPT ![t].rq = e] /\ UNCHANGED analysis
  /\ UNCHANGED <<simFrame, rpcVars>>

\* the fee request of a scenario is answered; an answer that is no fee
\* sample leaves the scenario with the fixed estimate
SimulateScenario(t) ==
  /\ pipe[t].pc = "simulate" /\ pipe[t].rq # "none"
  /\ \E answer \in Answers, latency_ms \in Latencies :
       /\ endpoints' = make_request(endpoints, pipe[t].rq, answer # "failed", latency_ms)
       /\ ScenarioSimulated(t, fees_fetched(answer))
  /\ UNCHANGED <<simFrame, checked, hc, req>>

\* a spam check that passes the transactions it takes for legitimate
detect_spam_transaction_passes == TRUE

\* FalsePositiveReducer::detect_spam_transaction
detect_spam_transaction == FALSE

\* FalsePositiveReducer::check_value_threshold
check_value_threshold(p) == p >= MinOpportunityValue

\* FalsePositiveReducer::check_slippage_threshold, the factor in hundredths
check_slippage_threshold(slippage_factor) == slippage_factor > 50

\* FalsePositiveReducer::check_pool_depth_sufficiency
check_pool_depth_sufficiency(pool_size, trade_size) ==
  pool_size >= trade_size * pool_depth_multiplier

\* a decision on the confidence score alone
should_execute_on_score(sc, slippage_check, pool_depth_check, spam_check, value_threshold_check) ==
  ~(sc < MinConfidenceThreshold)

\* FalsePositiveReducer::evaluate_opportunity: the overall decision
should_execute(sc, slippage_check, pool_depth_check, spam_check, value_threshold_check) ==
  /\ ~(sc < MinConfidenceThreshold)
  /\ slippage_check
  /\ pool_depth_check
  /\ spam_check
  /\ value_threshold_check

\* FalsePositiveReducer::evaluate_opportunity, and the branch on should_execute;
\* execute_strategy is given the details of the target transaction
FilterOpportunity(t) ==
  /\ pipe[t].pc = "filter"
  /\ \E sc \in Scores, slippage_check \in BOOLEAN, pool_depth_check \in BOOLEAN :
       LET spam_check == detect_spam_transaction
           execute == should_execute(sc, slippage_check, pool_depth_check, spam_check,
                                     check_value_threshold(pipe[t].estimated_profit))
       IN pipe' = [pipe EXCEPT ![t].score = sc,
                               ![t].target = IF execute THEN TRUE ELSE @,
                               ![t].pc = IF execute THEN "execute" ELSE "done",
                               ![t].result = IF execute THEN "none" ELSE "filtered"]
  /\ UNCHANGED <<auxVars, riskVars, rpcVars>>

\* MevStrategyExecutor::execute_strategy called on an opportunity by a caller of
\* the executor's public interface
CallExecuteStrategy(t, k, p, target) ==
  /\ pipe[t].pc = "idle"
  /\ pipe' = [pipe EXCEPT ![t] = [IdleTask EXCEPT !.pc = "execute", !.origin = "direct",
                                                  !.otype = k, !.estimated_profit = p,
                                                  !.target = target]]
  /\ UNCHANGED <<auxVars, riskVars, rpcVars>>

\* execute_strategy: dispatch on the opportunity type; a sandwich without the
\* target transaction is an Ok result that is no success
execute_strategy(t) ==
  /\ pipe[t].pc = "execute"
  /\ IF pipe[t].otype = "Sandwich" /\ ~pipe[t].target
     THEN StrategyReturns(t, Ended(pipe[t]), "failed")
     ELSE pipe' = [pipe EXCEPT ![t].pc = "x_simulate"] /\ mc' = mc
  /\ UNCHANGED <<execAux, cacheVars, logVars, riskVars, rpcVars>>

\* assess_simulation_variance against max_variance_threshold: the standard
\* deviation of the estimated profit scaled by 0.95, 1.05, 0.9, 1.1 and 0.8
\* is sqrt(0.0114) times the profit; compared squared, 114 p^2 <= 10^4 T^2
VarianceWithinThreshold(p) ==
  MulLeq(114 * p, p, 100 * MaxVarianceThreshold, 100 * MaxVarianceThreshold)

\* MevSimulationPipeline::run_bundle_simulation, one take_balance_snapshot at
\* a time: get_sol_balance sends getBalance to Helius, and an answer it
\* cannot read a balance from is the Err of the simulation.  After the
\* second snapshot the net profit is the balance after minus before
run_bundle_simulation(t) ==
  /\ pipe[t].pc = "x_simulate"
  /\ \E answer \in Answers, latency_ms \in Latencies :
       /\ endpoints' = make_request(endpoints, "Helius", answer # "failed", latency_ms)
       /\ IF answer # "result" THEN StrategyReturns(t, Ended(pipe[t]), "error")
          ELSE IF pipe[t].step = "none"
          THEN pipe' = [pipe EXCEPT ![t].step = "post"] /\ mc' = mc
          ELSE \E gain \in SnapshotGains, rounding \in Roundings :
                 LET is_profitable == /\ f64_gt(gain - MinSimulatedProfit, rounding)
                                      /\ VarianceWithinThreshold(pipe[t].estimated_profit)
                 IN IF ~is_profitable THEN StrategyReturns(t, Ended(pipe[t]), "failed")
                    ELSE /\ pipe' = [pipe EXCEPT ![t].pc = "x_costs", ![t].step = "none"]
                         /\ mc' = mc
  /\ UNCHANGED <<execAux, cacheVars, logVars, riskVars, checked, hc, req>>

\* JitoOptimizer::calculate_base_tip
calculate_base_tip(v) ==
  IF v > 1000000 THEN 3000
  ELSE IF v > 500000 THEN 2000
  ELSE IF v > 100000 THEN 1500
  ELSE IF v > 10000 THEN 1000
  ELSE 500

\* a tip whose congestion adjustment falls with the congestion
calculate_optimal_tip_falling(v, network_congestion, competition_level) ==
  LET final_tip == ((calculate_base_tip(v) \div 100) * (200 - network_congestion)
                      * (125 + competition_level)) \div 250
  IN Max(MinTip, Min(final_tip, MaxTip))

\* JitoOptimizer::calculate_optimal_tip with congestion and competition in
\* percent: base_tip * (1 + 0.5 * congestion) * (1 + 0.8 * competition),
\* clamped.  The base tips are multiples of 0.0001 SOL, so the division by
\* 100 is exact.
calculate_optimal_tip(v, network_congestion, competition_level) ==
  LET final_tip == ((calculate_base_tip(v) \div 100) * (200 + network_congestion)
                      * (125 + competition_level)) \div 250
  IN Max(MinTip, Min(final_tip, MaxTip))

\* MevStrategyExecutor::assess_network_congestion, assess_competition_level
assess_network_congestion == 50

assess_competition_level == 60

\* the strategies that compare the net profit with a floor:
\* execute_generic_strategy computes it and goes on
HasProfitFloor(k) == k \in {"Arbitrage", "Sandwich", "Frontrun"}

\* frontrun uses the arbitrage minimum
ProfitFloor(k) == IF k = "Sandwich" THEN min_sandwich_profit ELSE min_arbitrage_profit

\* net_profit < the floor of the strategy, on f64 values
BelowFloor(k, net_profit, rounding) ==
  HasProfitFloor(k) /\ ~f64_ge(net_profit - ProfitFloor(k), rounding)

\* a strategy after its simulation: calculate_optimal_tip gives the tip, and
\* calculate_dynamic_fees asks for the recent prioritization fees with ?,
\* whose get_best_rpc picks the endpoint: the Err of a table with no healthy
\* read endpoint is returned to the caller
RequestDynamicFees(t) ==
  /\ pipe[t].pc = "x_costs" /\ pipe[t].rq = "none"
  /\ LET optimal_tip == calculate_optimal_tip(pipe[t].estimated_profit,
                                              assess_network_congestion,
                                              assess_competition_level)
         e == get_best_rpc(endpoints, "Read")
     IN IF e = "none" THEN StrategyReturns(t, Ended(pipe[t]), "error")
        ELSE pipe' = [pipe EXCEPT ![t].tip = optimal_tip, ![t].rq = e] /\ mc' = mc
  /\ UNCHANGED <<execAux, cacheVars, logVars, riskVars, rpcVars>>

\* the fee request is answered: without samples the Err of
\* calculate_dynamic_fees is returned to the caller; with them the net
\* profit is the estimate less the execution cost and the tip, and a
\* strategy with a floor stops below it
CheckNetProfit(t) ==
  /\ pipe[t].pc = "x_costs" /\ pipe[t].rq # "none"
  /\ \E answer \in Answers, latency_ms \in Latencies, samples \in FeeSamples,
        rounding \in Roundings :
       /\ endpoints' = make_request(endpoints, pipe[t].rq, answer # "failed", latency_ms)
       /\ IF ~fees_fetched(answer) THEN StrategyReturns(t, Ended(pipe[t]), "error")
          ELSE LET fee_estimation == calculate_dynamic_fees(samples, pipe[t].estimated_profit)
                   total_costs == fee_estimation.total_execution_cost + pipe[t].tip
                   net_profit == pipe[t].estimated_profit - total_costs
                   below == BelowFloor(pipe[t].otype, net_profit, rounding)
                   task == [pipe[t] EXCEPT !.net_profit = net_profit, !.rq = "none"]
               IN IF below THEN StrategyReturns(t, task, "failed")
                  ELSE pipe' = [pipe EXCEPT ![t] = [task EXCEPT !.pc = "x_bundle"]] /\ mc' = mc
  /\ UNCHANGED <<execAux, cacheVars, logVars, riskVars, checked, hc, req>>

\* the exchanges get_best_swap_route asks for a quote; each of the four quote
\* functions returns a quote for every pair and amount
QuoteSources == {"Jupiter", "Raydium", "Orca", "Serum"}

\* OpportunityEvaluator::get_best_swap_route: whether there is a best quote
get_best_swap_route == QuoteSources # {}

\* MevStrategyExecutor::create_arbitrage_bundle: the buy and the sell when
\* both routes are there, no transaction otherwise
create_arbitrage_bundle ==
  LET dex1_route == get_best_swap_route
      dex2_route == get_best_swap_route
  IN IF dex1_route /\ dex2_route THEN <<"swap_a_to_b", "swap_b_to_a">> ELSE <<>>

\* MevStrategyExecutor::create_sandwich_bundle; the target transaction is
\* left to the block builder
create_sandwich_bundle == <<"frontrun", "backrun">>

\* the transactions a strategy hands to submit_via_jito
StrategyTransactions(otype) ==
  CASE otype = "Arbitrage" -> create_arbitrage_bundle
    [] otype = "Sandwich" -> create_sandwich_bundle
    [] otype = "Frontrun" -> <<"frontrun">>
    [] OTHER -> <<"generic">>

\* create_arbitrage_bundle, create_sandwich_bundle, create_frontrun_transaction
\* and create_generic_transaction: none of them has a failing branch
CreateBundle(t) ==
  /\ pipe[t].pc = "x_bundle"
  /\ pipe' = [pipe EXCEPT ![t].pc = "x_submit",
                          ![t].bundle = StrategyTransactions(pipe[t].otype)]
  /\ UNCHANGED <<auxVars, riskVars, rpcVars>>

\* a bundle with the tip transaction put first
prepare_bundle_tip_first(transactions) == <<"tip">> \o transactions

\* JitoOptimizer::prepare_bundle_for_submission: the tip transaction is
\* pushed after the transactions given
prepare_bundle_for_submission(transactions) == Append(transactions, "tip")

\* submit_via_jito: the bundle is prepared and handed to send_bundle, which
\* answers with the bundle's acceptance or with an error
submit_via_jito(t) ==
  /\ pipe[t].pc = "x_submit"
  /\ \E accepted \in BOOLEAN :
       pipe' = [pipe EXCEPT ![t].pc = "x_record", ![t].sent = TRUE,
                            ![t].bundle = prepare_bundle_for_submission(@),
                            ![t].accepted = accepted]
  /\ UNCHANGED <<auxVars, riskVars, rpcVars>>

\* the strategy after submit_via_jito: record_tip_result of the tip with the
\* outcome of the submission, then the result is returned
RecordSubmission(t) ==
  /\ pipe[t].pc = "x_record"
  /\ record_tip_result(pipe[t].tip, pipe[t].accepted)
  /\ StrategyReturns(t, pipe[t], IF pipe[t].accepted THEN "success" ELSE "failed")
  /\ UNCHANGED <<execAux, cacheVars, riskVars, rpcVars, current_tip, risk_events,
                 alert_history>>

(* ---------------- SolanaExecutor and its RiskManager ---------------- *)

LegacyStrategies == {"frontrun", "sandwich", "arbitrage", "snipe"}

\* the profits handed to record_transaction_result, in micro-SOL
RecordedProfits == {0 - 1000, 1000}

\* two of the profits an execute_* call is given, one refused and one sent
BreakerProfits == {0, 50000}

\* the estimated profits an execute_* call is given, in micro-SOL
LegacyProfits == {0 - 200000, 0, 500, 6000, 6500, 7200, 50000, 600000}

\* reset_daily_counters_if_needed at time t
reset_daily_counters_if_needed(state, t) ==
  IF t - state.last_reset_time >= DaySecs
  THEN [daily_losses |-> 0, consecutive_losses |-> 0, last_reset_time |-> t]
  ELSE state

\* should_allow_transaction on the state left by the daily reset.  The net
\* result and the cost times the ratio are rounded f64 values: where one is
\* exactly at its limit the comparison falls as the rounding does
should_allow_transaction(state, estimated_profit, expected_cost, rounding) ==
  LET net_result == estimated_profit - expected_cost
  IN /\ f64_ge(net_result + LegacyMaxLossPerBundle, rounding)
     /\ f64_ge(estimated_profit * 1000 - expected_cost * LegacyMinProfitabilityRatio, rounding)
     /\ ~(state.consecutive_losses >= LegacyMaxConsecutiveLosses)
     /\ ~(expected_cost > PositionSizeLimit)

\* RiskManager::record_transaction_result of risk_manager.rs, which nothing in
\* the repository calls: a failure or a negative profit counts as a loss of
\* the absolute value of the profit, anything else ends the run of losses.
\* The transaction history it also keeps is read by no check
record_transaction_result(success, profit) ==
  /\ risk_state.consecutive_losses < MaxLossRecords
  /\ risk_state.daily_losses < MaxLossRecords * 1000
  /\ risk_state' = IF ~success \/ profit < 0
                   THEN [risk_state EXCEPT !.consecutive_losses = @ + 1,
                                           !.daily_losses = @ + (IF profit < 0 THEN 0 - profit
                                                                 ELSE profit)]
                   ELSE [risk_state EXCEPT !.consecutive_losses = 0]
  /\ UNCHANGED <<legacy, riskVars, pipe, rpcVars, mon, metricVars, cacheVars, bootVars, analysis,
                 logVars>>

\* ProfitCalculator::calculate_profitability: net_profit and is_profitable,
\* net_profit > estimated_profit * min_profit_margin on rounded f64 values
legacy_profitability(estimated_profit, fees, tip_amount, rounding) ==
  LET total_costs == fees + tip_amount
      net_profit == estimated_profit - total_costs
  IN [total_costs |-> total_costs, net_profit |-> net_profit,
      is_profitable |-> f64_gt(net_profit * 1000 - estimated_profit * LegacyMinProfitMargin,
                               rounding)]

\* additional_safety_checks: the net profit is an f64 difference and the
\* ratio an f64 quotient, so a net profit of exactly 0 and a ratio of exactly
\* 1.2 fall as the rounding does
additional_safety_checks(estimated_profit, fees, tip_amount, rounding) ==
  LET total_costs == fees + tip_amount
      net_profit == estimated_profit - total_costs
  IN /\ ~(estimated_profit < SafetyMinProfit)
     /\ f64_gt(net_profit, rounding)
     /\ f64_ge(estimated_profit * 1000 - total_costs * SafetyRatio, rounding)
     /\ ~(estimated_profit > SafetyMaxProfit)

\* an execution that sends whatever it is given
checks_before_send_unguarded(strategy, allowed, estimated_profit, fees, tip_amount, safety_rounding, margin_rounding) ==
  "pass"

\* the checks of execute_frontrun, execute_sandwich, execute_arbitrage and
\* execute_snipe between the fee estimate and the first request of the send:
\* each returns Err before anything is built.  execute_snipe does not ask the
\* risk manager
checks_before_send(strategy, allowed, estimated_profit, fees, tip_amount, safety_rounding, margin_rounding) ==
  LET analysed == legacy_profitability(estimated_profit, fees, tip_amount, margin_rounding)
  IN CASE strategy # "snipe" /\ ~allowed -> "rejected_by_risk_manager"
       [] estimated_profit <= 0 -> "no_positive_profit"
       [] ~additional_safety_checks(estimated_profit, fees, tip_amount, safety_rounding)
            -> "failed_safety_checks"
       [] ~analysed.is_profitable -> "not_profitable"
       [] analysed.net_profit < 0 - LegacyMaxLossPerBundle -> "exceeds_max_loss"
       [] OTHER -> "pass"

legacyFrame == <<riskVars, pipe, rpcVars, mon, metricVars, cacheVars, bootVars, analysis, logVars>>

\* where a call that ends without a send goes: execute_snipe returns at once,
\* the other three record the attempt in the analytics first
AfterRefusal(strategy) == IF strategy = "snipe" THEN "done" ELSE "analytics"

\* caller o enters an execute_* method of its clone of the executor, all
\* clones sharing one RiskManager; the method's first request is get_balance
StartExecute(o, strategy, estimated_profit) ==
  /\ legacy.call[o].pc \in {"idle", "done"}
  /\ \E use_jito \in (IF legacy.use_jito = {} THEN BOOLEAN ELSE legacy.use_jito) :
       legacy' = [legacy EXCEPT !.use_jito = {use_jito},
                                !.call[o] = [IdleExec EXCEPT !.pc = "balance",
                                                             !.strategy = strategy,
                                                             !.estimated_profit = estimated_profit]]

execute_frontrun(estimated_profit) ==
  /\ StartExecute("caller", "frontrun", estimated_profit)
  /\ UNCHANGED <<risk_state, legacyFrame>>

execute_sandwich(estimated_profit) ==
  /\ StartExecute("caller", "sandwich", estimated_profit)
  /\ UNCHANGED <<risk_state, legacyFrame>>

execute_arbitrage(estimated_profit) ==
  /\ StartExecute("caller", "arbitrage", estimated_profit)
  /\ UNCHANGED <<risk_state, legacyFrame>>

execute_snipe(estimated_profit) ==
  /\ StartExecute("caller", "snipe", estimated_profit)
  /\ UNCHANGED <<risk_state, legacyFrame>>

\* should_continue_operation: get_balance is answered.  Its Err is returned
\* as it is; a balance under the minimum halts the call
should_continue_operation(o) ==
  /\ legacy.call[o].pc = "balance"
  /\ \E balance \in {"error", "low", "ok"} :
       LET c == legacy.call[o] IN
         legacy' = [legacy EXCEPT !.call[o] =
                      CASE balance = "error" -> [c EXCEPT !.pc = "done", !.result = "error"]
                        [] balance = "low" -> [c EXCEPT !.pc = AfterRefusal(c.strategy),
                                                        !.result = "halted"]
                        [] OTHER -> [c EXCEPT !.pc = "fees"]]
  /\ UNCHANGED <<risk_state, legacyFrame>>

\* calculate_transaction_fees: the fee request is answered, and whatever the
\* answer the fee is 0.005.  The call goes on without waiting to the risk
\* manager, whose daily reset happens under its mutex now, and through the
\* checks, up to the analytics or to the first request of the send.
\* failed_in_a_row counts the sends that failed since the last one that
\* succeeded and since the last daily reset
calculate_transaction_fees(o) ==
  /\ legacy.call[o].pc = "fees"
  /\ \E risk_rounding \in Roundings, safety_rounding \in Roundings,
        margin_rounding \in Roundings :
       LET c == legacy.call[o]
           fees == LegacyFee
           tip_amount == IF legacy.use_jito = {TRUE} THEN LegacyJitoTip ELSE 0
           total_cost == fees + tip_amount
           asked == c.strategy # "snipe"
           state == IF asked THEN reset_daily_counters_if_needed(risk_state, now)
                    ELSE risk_state
           allowed == should_allow_transaction(state, c.estimated_profit, total_cost,
                                               risk_rounding)
           verdict == checks_before_send(c.strategy, allowed, c.estimated_profit, fees,
                                         tip_amount, safety_rounding, margin_rounding)
       IN /\ risk_state' = state
          /\ legacy' = [legacy EXCEPT
                          !.failed_in_a_row =
                             IF state.last_reset_time # risk_state.last_reset_time THEN 0 ELSE @,
                          !.call[o] =
                             [c EXCEPT !.total_cost = total_cost,
                                       !.allowed = IF asked THEN {allowed} ELSE {},
                                       !.pc = IF verdict = "pass" THEN "blockhash"
                                              ELSE AfterRefusal(c.strategy),
                                       !.result = IF verdict = "pass" THEN "none" ELSE verdict]]
  /\ UNCHANGED legacyFrame

\* get_recent_blockhash is answered and the transactions are built, which
\* waits for nothing.  A failure on the RPC path is returned as it is; on the
\* Jito path it comes back from execute_*_with_jito as the result.  With
\* USE_JITO, JitoClient::new() decides between send_bundle and
\* send_transaction
get_recent_blockhash(o) ==
  /\ legacy.call[o].pc = "blockhash"
  /\ \E outcome \in {"error", "not_built", "built"}, jito_client \in BOOLEAN :
       LET c == legacy.call[o]
           use_jito == legacy.use_jito = {TRUE}
       IN legacy' = [legacy EXCEPT !.call[o] =
                       IF outcome # "built"
                       THEN [c EXCEPT !.result = "error",
                                      !.pc = IF use_jito THEN AfterRefusal(c.strategy)
                                             ELSE "done"]
                       ELSE [c EXCEPT !.pc = IF use_jito /\ jito_client THEN "bundle"
                                             ELSE "send"]]
  /\ UNCHANGED <<risk_state, legacyFrame>>

\* the outcome of a send: what the call has spent, and the run of failed
\* sends, which is followed up to MaxFailedSends
Sent(o, ok) ==
  LET c == legacy.call[o] IN
    /\ ok \/ legacy.failed_in_a_row < MaxFailedSends
    /\ legacy' = [legacy EXCEPT
                    !.failed_in_a_row = IF ok THEN 0 ELSE @ + 1,
                    !.call[o] = [c EXCEPT !.result = IF ok THEN "sent" ELSE "send_failed",
                                          !.submitted = TRUE,
                                          !.spent = IF ok THEN c.total_cost ELSE 0,
                                          !.pc = AfterRefusal(c.strategy)]]

\* JitoClient::send_bundle is answered; on its Err the main transaction goes
\* out by send_transaction
send_bundle(o) ==
  /\ legacy.call[o].pc = "bundle"
  /\ \E accepted \in BOOLEAN :
       IF accepted THEN Sent(o, TRUE)
       ELSE legacy' = [legacy EXCEPT !.call[o].pc = "send", !.call[o].submitted = TRUE]
  /\ UNCHANGED <<risk_state, legacyFrame>>

\* send_transaction is answered
send_transaction(o) ==
  /\ legacy.call[o].pc = "send"
  /\ \E ok \in BOOLEAN : Sent(o, ok)
  /\ UNCHANGED <<risk_state, legacyFrame>>

\* record_transaction_analytics and record_opportunity_analytics under the
\* mutex of the analytics, and the return of the call.  The result goes to
\* the analytics only: the executor does not call record_transaction_result
record_transaction_analytics(o) ==
  /\ legacy.call[o].pc = "analytics"
  /\ legacy' = [legacy EXCEPT !.call[o].pc = "done"]
  /\ UNCHANGED <<risk_state, legacyFrame>>

(* ---------------- SolanaMempool: the monitoring loop ---------------- *)

\* the frame of a step of the monitoring loop itself
monFrame == <<riskVars, pipe, rpcVars, metricVars, cacheVars, bootVars, analysis, logVars, legacyVars>>

\* the frame of a round of slot polling, which may call the executor
slotFrame == <<riskVars, pipe, rpcVars, metricVars, cacheVars, bootVars, analysis, logVars>>

\* connect_ws_with_reconnect up to its receive loop: connect_async and the
\* logsSubscribe request; either failing returns Err to start(), which goes
\* straight to start_slot_monitoring
ConnectWs ==
  /\ mon.pc = "connect"
  /\ \E connected \in BOOLEAN :
       mon' = [mon EXCEPT !.pc = IF connected THEN "recv" ELSE "slot",
                          !.connection_errors = 0]
  /\ UNCHANGED monFrame

\* a receive loop that awaits the analysis of the transaction it has just
\* observed
LogsNotification_awaits(t) ==
  /\ mon.pc = "recv"
  /\ \A u \in Callers : pipe[u].pc \in {"idle", "done"}
  /\ pipe[t].pc = "idle"
  /\ pipe' = [pipe EXCEPT ![t] = [IdleTask EXCEPT !.pc = "fetch", !.origin = "stream"]]
  /\ UNCHANGED <<auxVars, riskVars, rpcVars>>

\* the receive loop on a logsNotification carrying a signature: tokio::spawn
\* of analyze_and_execute_opportunity, and back to ws_receiver.next()
LogsNotification(t) ==
  /\ mon.pc = "recv"
  /\ Detect(t)

\* the receive loop on Some(Err(e)) or None: connect_ws_with_reconnect returns
\* Err and start() calls start_slot_monitoring
StreamError ==
  /\ mon.pc = "recv"
  /\ mon' = [mon EXCEPT !.pc = "slot", !.connection_errors = 0]
  /\ UNCHANGED monFrame

\* a round of start_slot_monitoring, get_slot answered.  A slot that did not
\* advance changes nothing; one that did resets the error counter, and every
\* 50th is first handed to the executor as a simulated frontrun of profit 0,
\* which the loop awaits; the tenth consecutive error returns to start(),
\* which tries the WebSocket again
GetSlot ==
  /\ mon.pc = "slot"
  /\ \E outcome \in {"advanced", "same", "error"}, fiftieth \in BOOLEAN :
       CASE outcome = "advanced" /\ fiftieth ->
              /\ mon' = [mon EXCEPT !.pc = "frontrun", !.simulated = TRUE]
              /\ StartExecute("slot", "frontrun", 0)
              /\ UNCHANGED risk_state
         [] outcome = "advanced" /\ ~fiftieth ->
              /\ mon' = [mon EXCEPT !.pc = "sleep", !.connection_errors = 0]
              /\ UNCHANGED legacyVars
         [] outcome = "same" ->
              /\ mon' = [mon EXCEPT !.pc = "sleep"]
              /\ UNCHANGED legacyVars
         [] outcome = "error" ->
              /\ mon' = [mon EXCEPT !.pc = IF mon.connection_errors + 1 >= max_errors_before_reset
                                           THEN "connect" ELSE "sleep",
                                    !.connection_errors = mon.connection_errors + 1]
              /\ UNCHANGED legacyVars
  /\ UNCHANGED slotFrame

\* the execute_frontrun the loop awaited has returned, Ok or Err: the slot is
\* taken as seen and the error counter reset
SlotFrontrunReturned ==
  /\ mon.pc = "frontrun"
  /\ legacy.call["slot"].pc = "done"
  /\ mon' = [mon EXCEPT !.pc = "sleep", !.connection_errors = 0]
  /\ UNCHANGED monFrame

\* the sleep of 500 ms that ends a round is over
SlotSleep ==
  /\ mon.pc = "sleep"
  /\ mon' = [mon EXCEPT !.pc = "slot"]
  /\ UNCHANGED monFrame

(* ---------------- MetricsCollector ---------------- *)

CanWrite(l) == mlocks[l].writer = 0 /\ mlocks[l].readers = {}

CanRead(l) == mlocks[l].writer = 0

alertLog == <<alert_history, appended>>

metricOther == <<riskVars, rpcVars, mon, cacheVars, bootVars, analysis, legacyVars,
                 current_tip, tip_adjustment_history, risk_events>>

metricRest == <<metricOther, pipe>>

metricFrame == <<metricRest, alertLog>>

\* MetricsCollector::trigger_alert: alert_history.write(), the push, and the
\* drain of what is over the cap; the entry's timestamp is its place in the
\* order of arrival
trigger_alert(alert_type) ==
  /\ alert_history' = push_bounded(alert_history, [at |-> appended["alert_history"] + 1],
                                   AlertCap)
  /\ appended' = [appended EXCEPT !["alert_history"] = @ + 1]

\* the first lock each method asks for
FirstLock(op, arg) ==
  CASE op = "record_strategy_execution" -> "system_metrics"
    [] op = "record_opportunity_result" -> "opportunity_history"
    [] op = "record_rpc_call" -> "rpc_metrics"
    [] op = "check_and_trigger_alerts" -> IF arg THEN "balance_alert" ELSE "system_metrics"
    [] op = "reset_metrics" -> "system_metrics"

\* a caller enters one of the methods; arg is result.success for
\* record_strategy_execution and "the balance dropped by more than the
\* threshold" for check_and_trigger_alerts
MetricsCall(c, op, arg) ==
  /\ mc[c].pc \in {"idle", "returned"}
  /\ arg => op \in {"record_strategy_execution", "check_and_trigger_alerts"}
  /\ op = "record_strategy_execution" =>
        system_metrics.total_opportunities_executed < MaxExecutions
  /\ op = "check_and_trigger_alerts" => appended["alert_history"] < MaxAlerts
  /\ mc' = [mc EXCEPT ![c] = [op |-> op, arg |-> arg, pc |-> FirstLock(op, arg)]]
  /\ UNCHANGED <<metricFrame, system_metrics, mlocks>>

\* record_strategy_execution: system_metrics.write(), the counters, and on to
\* record_strategy_specific_metrics with the guard still held
RecordStrategyExecution_system(c) ==
  /\ mc[c].op = "record_strategy_execution" /\ mc[c].pc = "system_metrics"
  /\ CanWrite("system_metrics")
  /\ mlocks' = [mlocks EXCEPT !["system_metrics"].writer = c]
  /\ system_metrics' =
       [system_metrics EXCEPT
          !.total_opportunities_executed = @ + 1,
          !.total_successful_executions = IF mc[c].arg THEN @ + 1 ELSE @]
  /\ mc' = [mc EXCEPT ![c].pc = "strategy_metrics"]
  /\ UNCHANGED metricFrame

\* record_strategy_specific_metrics: strategy_metrics.write(); both guards are
\* dropped on return, and a task of the stream that was waiting for the
\* return is over
RecordStrategyExecution_strategy(c) ==
  /\ mc[c].op = "record_strategy_execution" /\ mc[c].pc = "strategy_metrics"
  /\ CanWrite("strategy_metrics")
  /\ mlocks' = [mlocks EXCEPT !["system_metrics"].writer = 0]
  /\ mc' = [mc EXCEPT ![c].pc = "returned"]
  /\ pipe' = IF pipe[c].pc = "x_metrics" THEN [pipe EXCEPT ![c].pc = "done"] ELSE pipe
  /\ UNCHANGED <<metricOther, alertLog, system_metrics>>

\* record_opportunity_result: opportunity_history.write() and the push
RecordOpportunityResult_history(c) ==
  /\ mc[c].op = "record_opportunity_result" /\ mc[c].pc = "opportunity_history"
  /\ CanWrite("opportunity_history")
  /\ mlocks' = [mlocks EXCEPT !["opportunity_history"].writer = c]
  /\ mc' = [mc EXCEPT ![c].pc = "system_metrics"]
  /\ UNCHANGED <<metricFrame, system_metrics>>

\* record_opportunity_result: system_metrics.write() with the history guard
\* still held, the average, and the return
RecordOpportunityResult_system(c) ==
  /\ mc[c].op = "record_opportunity_result" /\ mc[c].pc = "system_metrics"
  /\ CanWrite("system_metrics")
  /\ mlocks' = [mlocks EXCEPT !["opportunity_history"].writer = 0]
  /\ mc' = [mc EXCEPT ![c].pc = "returned"]
  /\ UNCHANGED <<metricFrame, system_metrics>>

\* record_rpc_call: rpc_metrics.write(), the update, and the return
RecordRpcCall(c) ==
  /\ mc[c].op = "record_rpc_call" /\ mc[c].pc = "rpc_metrics"
  /\ CanWrite("rpc_metrics")
  /\ mc' = [mc EXCEPT ![c].pc = "returned"]
  /\ UNCHANGED <<metricFrame, system_metrics, mlocks>>

\* check_and_trigger_alerts, balance drop: trigger_alert takes
\* alert_history.write(), pushes the BalanceDrop alert and drops the guard
CheckAlerts_balance(c) ==
  /\ mc[c].op = "check_and_trigger_alerts" /\ mc[c].pc = "balance_alert"
  /\ CanWrite("alert_history")
  /\ trigger_alert("BalanceDrop")
  /\ mc' = [mc EXCEPT ![c].pc = "system_metrics"]
  /\ UNCHANGED <<metricRest, system_metrics, mlocks>>

\* check_and_trigger_alerts: system_metrics.read(); with at least ten
\* executions and a success rate under the threshold it goes on to
\* trigger_alert with the read guard held
CheckAlerts_system(c) ==
  /\ mc[c].op = "check_and_trigger_alerts" /\ mc[c].pc = "system_metrics"
  /\ CanRead("system_metrics")
  /\ IF /\ system_metrics.total_opportunities_executed >= AlertMinExecutions
        /\ system_metrics.total_successful_executions * 1000
             < success_rate_threshold * system_metrics.total_opportunities_executed
     THEN /\ mlocks' = [mlocks EXCEPT !["system_metrics"].readers = @ \cup {c}]
          /\ mc' = [mc EXCEPT ![c].pc = "rate_alert"]
     ELSE /\ mc' = [mc EXCEPT ![c].pc = "returned"]
          /\ UNCHANGED mlocks
  /\ UNCHANGED <<metricFrame, system_metrics>>

\* trigger_alert for the low success rate: alert_history.write(), the push,
\* and the return drops the read guard
CheckAlerts_rate(c) ==
  /\ mc[c].op = "check_and_trigger_alerts" /\ mc[c].pc = "rate_alert"
  /\ CanWrite("alert_history")
  /\ trigger_alert("LowSuccessRate")
  /\ mlocks' = [mlocks EXCEPT !["system_metrics"].readers = @ \ {c}]
  /\ mc' = [mc EXCEPT ![c].pc = "returned"]
  /\ UNCHANGED <<metricRest, system_metrics>>

\* reset_metrics: system_metrics.write() and the zeroed record; the guard
\* lives to the end of the function
ResetMetrics_system(c) ==
  /\ mc[c].op = "reset_metrics" /\ mc[c].pc = "system_metrics"
  /\ CanWrite("system_metrics")
  /\ mlocks' = [mlocks EXCEPT !["system_metrics"].writer = c]
  /\ system_metrics' = [total_opportunities_executed |-> 0, total_successful_executions |-> 0]
  /\ mc' = [mc EXCEPT ![c].pc = "strategy_metrics"]
  /\ UNCHANGED metricFrame

\* the lock reset_metrics clears after lock l, "end" after the last
NextToClear(l) ==
  CASE l = "strategy_metrics" -> "rpc_metrics"
    [] l = "rpc_metrics" -> "opportunity_history"
    [] l = "opportunity_history" -> "alert_history"
    [] l = "alert_history" -> "end"

\* reset_metrics: *self.<field>.write().await = empty, one field after the
\* other; alert_history is the last one, and after it the function returns
\* and drops the system_metrics guard
ResetMetrics_clear(c) ==
  /\ mc[c].op = "reset_metrics"
  /\ mc[c].pc \in MetricLocks \ {"system_metrics"}
  /\ CanWrite(mc[c].pc)
  /\ IF NextToClear(mc[c].pc) = "end"
     THEN /\ mlocks' = [mlocks EXCEPT !["system_metrics"].writer = 0]
          /\ mc' = [mc EXCEPT ![c].pc = "returned"]
     ELSE /\ mc' = [mc EXCEPT ![c].pc = NextToClear(mc[c].pc)]
          /\ UNCHANGED mlocks
  /\ IF mc[c].pc = "alert_history"
     THEN /\ alert_history' = <<>>
          /\ appended' = [appended EXCEPT !["alert_history"] = 0]
     ELSE UNCHANGED alertLog
  /\ UNCHANGED <<metricRest, system_metrics>>

(* ---------------- start-up ---------------- *)

\* std::env::var(s).unwrap_or_else(|_| default)
SettingText(s) == IF env[s] = {} THEN DefaultText(s) ELSE CHOOSE text \in env[s] : TRUE

\* the RiskLimits of the manager RiskManager::new returns
RiskLimits(parsed) ==
  [global_daily_spending_limit |-> parsed["GLOBAL_DAILY_SPENDING_LIMIT"],
   max_consecutive_failures |-> parsed["MAX_CONSECUTIVE_FAILURES"],
   min_balance_threshold |-> parsed["MIN_BALANCE_THRESHOLD"],
   max_strategy_failures |-> parsed["MAX_STRATEGY_FAILURES"],
   session_timeout_minutes |-> parsed["SESSION_TIMEOUT_MINUTES"]]

\* RiskManager::new, called from SolanaMempool::new: each setting is read
\* with its fallback and parsed; a text that is no number is the only error,
\* and the manager built has the parsed limits
RiskManagerFromEnv ==
  /\ boot.pc = "starting"
  /\ IF \E s \in Settings : ~Parses(SettingText(s))
     THEN /\ boot' = [boot EXCEPT !.pc = "failed", !.error = "Invalid"]
          /\ UNCHANGED limits
     ELSE LET parsed == [s \in Settings |-> Parsed(SettingText(s))]
          IN /\ boot' = [boot EXCEPT !.pc = "running", !.limits = parsed]
             /\ limits' = RiskLimits(parsed)
  /\ UNCHANGED <<now, balance_tracker, global_daily_spent, consecutive_failure_count,
                 strategy_failures, call, last_record, admitted_total, fail_streak,
                 fail_since_reset, since_enabled, since_success>>
  /\ UNCHANGED <<pipe, rpcVars, mon, metricVars, cacheVars, env, analysis, logVars, legacyVars>>

(* ---------------- profitability ---------------- *)

\* JitoOptimizer::calculate_optimal_tip called on one opportunity value at
\* two congestion levels and at two competition levels; the function keeps
\* no state, so each comparison is looked at on its own
CompareTips ==
  /\ analysis = NoAnalysis
  /\ \E v \in TipValues, c1 \in Levels, c2 \in Levels, k1 \in Levels, k2 \in Levels :
       analysis' = [by |-> "calculate_optimal_tip", opportunity_value |-> v,
                    c1 |-> c1, c2 |-> c2, k1 |-> k1, k2 |-> k2,
                    out |-> [tip |-> calculate_optimal_tip(v, c1, k1),
                             tip_c2 |-> calculate_optimal_tip(v, c2, k1),
                             tip_k2 |-> calculate_optimal_tip(v, c1, k2)]]
  /\ UNCHANGED <<riskVars, pipe, rpcVars, mon, metricVars, cacheVars, bootVars, logVars, legacyVars>>

\* FalsePositiveReducer::estimate_pool_size: 10000 for SOL/USDC, 1000 for
\* every other pair
estimate_pool_size(sol_usdc) == IF sol_usdc THEN 10000 ELSE 1000

\* FalsePositiveReducer::calculate_pool_size_factor, in thousandths: the
\* pool's multiple of the trade size over 50, at most 1; a trade size of 0
\* gives an infinite ratio and so 1
calculate_pool_size_factor(pool_size, trade_size) ==
  IF pool_size = 0 THEN 100
  ELSE IF trade_size = 0 THEN 1000
  ELSE Min((pool_size * 20) \div trade_size, 1000)

\* FalsePositiveReducer::calculate_slippage_factor, in thousandths.  The
\* expected slippage is 0.05 * trade_size / pool_size and the acceptable one
\* 0.03 * estimated_profit; both sides of the comparison are scaled by
\* 10^5 * pool_size, the profit being in micro-SOL.  Both are rounded f64
\* products: where they are exactly equal the computed expected slippage is
\* the greater or not as the rounding falls
calculate_slippage_factor(pool_size, trade_size, estimated_profit, rounding) ==
  LET expected_slippage == trade_size * 5000
      max_acceptable_slippage == estimated_profit * 3 * (pool_size \div 1000)
  IN IF expected_slippage = 0 THEN 1000
     ELSE IF f64_gt(expected_slippage - max_acceptable_slippage, rounding) THEN 100
     ELSE 1000 - (1000 * expected_slippage) \div max_acceptable_slippage

\* FalsePositiveReducer::calculate_price_impact_factor, in thousandths: the
\* expected impact is 0.8 of the expected slippage, the acceptable one 0.05
\* of the estimated profit, compared as rounded f64 products.  The two are
\* never exactly equal for a trade whose slippages are, so one rounding
\* stands for both factors
calculate_price_impact_factor(pool_size, trade_size, estimated_profit, rounding) ==
  LET expected_price_impact == trade_size * 4000
      max_acceptable_impact == estimated_profit * 5 * (pool_size \div 1000)
  IN IF expected_price_impact = 0 THEN 1000
     ELSE IF f64_gt(expected_price_impact - max_acceptable_impact, rounding) THEN 200
     ELSE 1000 - Min((1000 * expected_price_impact) \div max_acceptable_impact, 1000)

\* the sum of f over the indices in s
RECURSIVE SumOver(_, _)
SumOver(f, s) ==
  IF s = {} THEN 0
  ELSE LET i == CHOOSE j \in s : TRUE IN f[i] + SumOver(f, s \ {i})

\* FalsePositiveReducer::calculate_simulation_success_factor, in thousandths:
\* the average net profit of the valid results over 0.01 SOL, at most 0.5,
\* plus one minus their variance (in SOL squared, at most 1), at most 1 in
\* all.  Nothing bounds the profit part from below.
calculate_simulation_success_factor(simulation_results) ==
  LET valid == {i \in DOMAIN simulation_results : simulation_results[i].is_valid}
      n == Cardinality(valid)
      avg_net_profit ==
        SumOver([i \in valid |-> simulation_results[i].net_profit], valid) \div n
      dev == [i \in valid |-> (simulation_results[i].net_profit - avg_net_profit) \div 10]
      variance == (SumOver([i \in valid |-> dev[i] * dev[i]], valid) \div n) \div 10000000
      profit_factor == Min(avg_net_profit \div 10, 500)
      consistency_factor == Max(1000 - Min(variance, 1000), 0)
  IN IF simulation_results = <<>> THEN 100
     ELSE IF valid = {} THEN 100
     ELSE Min(profit_factor + consistency_factor, 1000)

\* FalsePositiveReducer::calculate_recent_block_variance_factor
calculate_recent_block_variance_factor == 800

\* FalsePositiveReducer::calculate_sender_history_factor
calculate_sender_history_factor == 900

\* FalsePositiveReducer::calculate_transaction_value_factor
calculate_transaction_value_factor(estimated_profit) ==
  IF estimated_profit >= 10000 THEN 1000
  ELSE IF estimated_profit >= 5000 THEN 700
  ELSE 300

\* the weights of the seven factors in calculate_confidence_score, in
\* hundredths, in the order of the sum
FactorWeights == <<15, 20, 15, 20, 10, 10, 10>>

\* the factors of one opportunity, in the order of the weights
ConfidenceFactors(sol_usdc, trade_size, estimated_profit, simulation_results, rounding) ==
  LET pool_size == estimate_pool_size(sol_usdc)
  IN <<calculate_pool_size_factor(pool_size, trade_size),
       calculate_slippage_factor(pool_size, trade_size, estimated_profit, rounding),
       calculate_price_impact_factor(pool_size, trade_size, estimated_profit, rounding),
       calculate_simulation_success_factor(simulation_results),
       calculate_recent_block_variance_factor,
       calculate_sender_history_factor,
       calculate_transaction_value_factor(estimated_profit)>>

\* the weighted sum of the factors, in units of 10^-5
weighted_score(factors) ==
  SumOver([i \in DOMAIN FactorWeights |-> factors[i] * FactorWeights[i]],
          DOMAIN FactorWeights)

\* the weighted sum taken as the score as it stands
final_score_unbounded(weighted) == weighted

\* calculate_confidence_score: the weighted sum brought into 0 to 1
final_score(weighted) == Max(Min(weighted, 100000), 0)

\* FalsePositiveReducer::calculate_confidence_score on one opportunity and
\* its simulation results; the function keeps no state, so each call is
\* looked at on its own
ScoreOpportunity ==
  /\ analysis = NoAnalysis
  /\ \E sol_usdc \in BOOLEAN, trade_size \in ScoreTradeSizes,
        estimated_profit \in ScoreProfits, rounding \in Roundings,
        simulation_results \in
          UNION {[1..n -> [is_valid : BOOLEAN, net_profit : SimNets]] : n \in 0..MaxResults} :
       LET factors == ConfidenceFactors(sol_usdc, trade_size, estimated_profit,
                                        simulation_results, rounding)
           weighted == weighted_score(factors)
       IN analysis' =
            [by |-> "calculate_confidence_score", sol_usdc |-> sol_usdc,
             trade_size |-> trade_size, estimated_profit |-> estimated_profit,
             simulation_results |-> simulation_results,
             out |-> [score |-> final_score(weighted), weighted_score |-> weighted,
                      factors |-> factors,
                      is_reliable |-> Len(simulation_results) > 0]]
  /\ UNCHANGED <<riskVars, pipe, rpcVars, mon, metricVars, cacheVars, bootVars, logVars, legacyVars>>

\* FalsePositiveReducer::evaluate_opportunity on one opportunity and its
\* confidence score
EvaluateFilters ==
  /\ \E sc \in FilterScores, slippage_factor \in SlippageFactors,
        pool_size \in FilterPoolSizes, trade_size \in FilterTradeSizes,
        estimated_profit \in FilterProfits :
       LET spam_check == detect_spam_transaction
       IN analysis' =
            [by |-> "evaluate_opportunity", score |-> sc,
             slippage_factor |-> slippage_factor, pool_size |-> pool_size,
             trade_size |-> trade_size, estimated_profit |-> estimated_profit,
             spam_check |-> spam_check,
             out |-> [should_execute |->
                        should_execute(sc, check_slippage_threshold(slippage_factor),
                                       check_pool_depth_sufficiency(pool_size, trade_size),
                                       spam_check,
                                       check_value_threshold(estimated_profit))]]
  /\ UNCHANGED <<riskVars, pipe, rpcVars, mon, metricVars, cacheVars, bootVars, logVars, legacyVars>>

\* an analysis that compares the estimated profit, not the net profit, with the margin
OpportunityAnalysisNew_gross(profit, cost, min_profit_margin, rounding) ==
  [profit |-> profit, cost |-> cost, revenue |-> profit + cost,
   is_profitable |-> profit * 1000 > cost * min_profit_margin,
   net_profit |-> profit - cost]

\* OpportunityAnalysis::new, the margin in thousandths: net_profit > cost *
\* min_profit_margin on f64 values.  A net profit of 0 is computed from
\* equal values and is exact; any other net profit that equals the margin
\* exactly is above or below it as the rounding of the subtraction and of
\* the product falls
OpportunityAnalysisNew(profit, cost, min_profit_margin, rounding) ==
  LET net_profit == profit - cost
      diff == net_profit * 1000 - cost * min_profit_margin
  IN [profit |-> profit, cost |-> cost, revenue |-> profit + cost,
      is_profitable |-> IF net_profit = 0 THEN diff > 0 ELSE f64_gt(diff, rounding),
      net_profit |-> net_profit]

calcFrame == <<riskVars, pipe, rpcVars, mon, metricVars, cacheVars, bootVars, logVars, legacyVars>>

\* OpportunityAnalysis::new on one pair of profit and cost
AnalyseOpportunity ==
  /\ \E profit \in AnalysisProfits, cost \in AnalysisCosts, margin \in ProfitMargins,
        rounding \in Roundings :
       analysis' = [by |-> "OpportunityAnalysis::new",
                    out |-> OpportunityAnalysisNew(profit, cost, margin, rounding)]
  /\ UNCHANGED calcFrame

(* ---------------- the running tip and the bounded logs ---------------- *)

logFrame == <<riskVars, pipe, rpcVars, mon, metricVars, cacheVars, bootVars, legacyVars>>

\* a caller of JitoOptimizer::record_tip_result
RecordTipResult(tip_amount, success) ==
  /\ record_tip_result(tip_amount, success)
  /\ UNCHANGED <<logFrame, analysis, current_tip, risk_events, alert_history>>

\* the successes in a tip history
recent_successes(history) ==
  Cardinality({i \in DOMAIN history : history[i].success})

\* a running tip that is raised by every adjustment
adjusted_tip_always_raised(tip, history) == Min((tip * 11) \div 10, MaxTip)

\* JitoOptimizer::adjust_tip_based_on_history: the tip after the call, in
\* whole micro-SOL; a success rate under 0.7 raises it by a tenth, one over
\* 0.9 lowers it by a twentieth
adjusted_tip(tip, history) ==
  IF history = <<>> THEN tip
  ELSE IF recent_successes(history) * 10 < 7 * Len(history)
       THEN Min((tip * 11) \div 10, MaxTip)
  ELSE IF recent_successes(history) * 10 > 9 * Len(history)
       THEN Max((tip * 19) \div 20, MinTip)
  ELSE tip

\* JitoOptimizer::adjust_tip_based_on_history, with the call on record
AdjustTipBasedOnHistory ==
  /\ current_tip' = adjusted_tip(current_tip, tip_adjustment_history)
  /\ analysis' = [by |-> "adjust_tip_based_on_history",
                  history |-> tip_adjustment_history,
                  before |-> current_tip,
                  out |-> current_tip']
  /\ UNCHANGED <<logFrame, tip_adjustment_history, risk_events, alert_history, appended>>

\* RiskManager::record_risk_event called on its own, as check_bundle_risk
\* calls it on a loss beyond the limit of a bundle
RecordRiskEvent(event_type) ==
  /\ record_risk_event(event_type)
  /\ UNCHANGED <<logFrame, analysis, current_tip, tip_adjustment_history, alert_history>>

\* MetricsCollector::trigger_alert called on its own
TriggerAlert ==
  /\ trigger_alert("BalanceDrop")
  /\ UNCHANGED <<logFrame, analysis, current_tip, tip_adjustment_history, risk_events>>

(* ---------------- specifications ---------------- *)

\* the global gate under two concurrent callers
NextGate ==
  \/ \E t \in Callers, b \in Balances : initialize_balance(t, b)
  \/ \E t \in Callers, p \in Profits, c \in Costs : CallShouldAllowOperation(t, p, c)
  \/ \E t \in Callers : CheckSession(t)
  \/ \E t \in Callers : CheckDaily(t)
  \/ \E t \in Callers : CheckBalance(t)
  \/ \E t \in Callers : CheckFailures(t)
  \/ \E t \in Callers : PushRiskEvent(t)
  \/ \E t \in Callers : Release(t)
  \/ \E t \in Callers, p \in Profits : record_successful_operation(t, p)
  \/ \E t \in Callers : RecordSpend(t)
  \/ \E t \in Callers : record_failed_operation(t)
  \/ reset_risk_state
  \/ ResetTrackers

SpecGate == Init /\ [][NextGate]_vars

\* the tracker of one strategy kind under two concurrent callers
NextStrategy ==
  \/ Tick
  \/ \E t \in Callers, p \in Profits : CallShouldAllowStrategy(t, "Sandwich", p, 0)
  \/ \E t \in Callers : CheckSession(t)
  \/ \E t \in Callers : CheckDaily(t)
  \/ \E t \in Callers : CheckBalance(t)
  \/ \E t \in Callers : CheckFailures(t)
  \/ \E t \in Callers : CheckStrategy(t)
  \/ \E t \in Callers : ReenableStrategy(t)
  \/ \E t \in Tasks : PushRiskEvent(t)
  \/ \E t \in Callers : Release(t)
  \/ \E t \in Tasks : record_strategy_failure(t, "Sandwich")
  \/ enable_strategy("Sandwich")

SpecStrategy == Init /\ [][NextStrategy]_vars

\* the same without the operator override: only the gate itself re-enables
NextAuto ==
  \/ Tick
  \/ \E t \in Callers, p \in Profits : CallShouldAllowStrategy(t, "Sandwich", p, 0)
  \/ \E t \in Callers : CheckSession(t)
  \/ \E t \in Callers : CheckDaily(t)
  \/ \E t \in Callers : CheckBalance(t)
  \/ \E t \in Callers : CheckFailures(t)
  \/ \E t \in Callers : CheckStrategy(t)
  \/ \E t \in Callers : ReenableStrategy(t)
  \/ \E t \in Tasks : PushRiskEvent(t)
  \/ \E t \in Callers : Release(t)
  \/ \E t \in Tasks : record_strategy_failure(t, "Sandwich")

SpecAuto == Init /\ [][NextAuto]_vars

\* a wallet whose balance moves around the minimum threshold, one caller
NextLowBalance ==
  \/ \E b \in Balances : initialize_balance(1, b)
  \/ \E b \in Balances : update_balance(1, b)
  \/ \E p \in Profits, c \in SmallCosts \cup Costs : CallShouldAllowOperation(1, p, c)
  \/ \E p \in Profits, c \in SmallCosts : CallShouldAllowStrategy(1, "Sandwich", p, c)
  \/ CheckSession(1)
  \/ CheckDaily(1)
  \/ CheckBalance(1)
  \/ CheckFailures(1)
  \/ CheckStrategy(1)
  \/ PushRiskEvent(1)
  \/ Release(1)

SpecLowBalance == Init /\ [][NextLowBalance]_vars

\* one caller and nothing else running while its admission call is in progress
NextSeq ==
  \/ Quiet(1) /\ Tick
  \/ \E b \in Balances : initialize_balance(1, b)
  \/ \E p \in Profits, c \in Costs : CallShouldAllowOperation(1, p, c)
  \/ \E p \in Profits, c \in Costs : CallShouldAllowStrategy(1, "Sandwich", p, c)
  \/ CheckSession(1)
  \/ CheckDaily(1)
  \/ CheckBalance(1)
  \/ CheckFailures(1)
  \/ CheckStrategy(1)
  \/ ReenableStrategy(1)
  \/ PushRiskEvent(1)
  \/ Release(1)
  \/ record_successful_operation(1, 0 - 6000000)
  \/ RecordSpend(1)
  \/ record_failed_operation(1)
  \/ record_strategy_failure(1, "Sandwich")

SpecSeq == Init /\ [][NextSeq]_vars

\* a session without timeout that spends on its first day only and runs on
\* for MaxDays days
NextDaily ==
  \/ DayPasses
  \/ \E b \in Balances : initialize_balance(1, b)
  \/ \E p \in Profits, c \in Costs : CallShouldAllowOperation(1, p, c)
  \/ CheckSession(1)
  \/ CheckDaily(1)
  \/ CheckBalance(1)
  \/ CheckFailures(1)
  \/ PushRiskEvent(1)
  \/ Release(1)
  \/ \E p \in Profits : now = 0 /\ record_successful_operation(1, p)
  \/ now = 0 /\ RecordSpend(1)
  \/ record_failed_operation(1)
  \/ reset_risk_state
  \/ ResetTrackers

SpecDaily == InitDaily /\ [][NextDaily]_vars

\* the RpcManager alone: the health-check task, and one caller that asks for
\* endpoints and sends requests
NextRpc ==
  \/ HealthCheckStart
  \/ HealthCheckRequest
  \/ HealthCheckWrite
  \/ \E task_type \in RpcTaskTypes : GetBestRpc(1, task_type)
  \/ RequestChosen(1)
  \/ \E e \in {"Helius", "Jito"} : RequestDirect(1, e)

SpecRpc == Init /\ [][NextRpc]_vars

\* one task of the detection-to-execution path next to the strategy trackers
\* and to another user of the RpcManager
NextPipe ==
  \/ \E k \in Kinds : record_strategy_failure(Operator, k)
  \/ PushRiskEvent(Operator)
  \/ Detect(1)
  \/ FetchTransactionDetails(1)
  \/ EvaluateOpportunity(1)
  \/ FetchFresh(1)
  \/ WriteCache(1)
  \/ IdentifyArbitrageFromBalances(1)
  \/ VerifyOpportunity(1)
  \/ CalculateRealisticProfit(1)
  \/ EstimateTransactionFees(1)
  \/ SimulateAndValidate(1)
  \/ SimulateScenario(1)
  \/ FilterOpportunity(1)
  \/ \E k \in Kinds, p \in OppProfits, target \in BOOLEAN : CallExecuteStrategy(1, k, p, target)
  \/ execute_strategy(1)
  \/ run_bundle_simulation(1)
  \/ RequestDynamicFees(1)
  \/ CheckNetProfit(1)
  \/ CreateBundle(1)
  \/ submit_via_jito(1)
  \/ RecordSubmission(1)
  \/ \E e \in {"Helius", "Jito"} : RequestDirect(2, e)

SpecPipe == Init /\ [][NextPipe]_vars

\* the monitoring loop and the tasks it spawns
NextStream ==
  \/ ConnectWs
  \/ \E t \in Callers : LogsNotification(t)
  \/ StreamError
  \/ GetSlot
  \/ should_continue_operation("slot")
  \/ calculate_transaction_fees("slot")
  \/ record_transaction_analytics("slot")
  \/ SlotFrontrunReturned
  \/ SlotSleep
  \/ \E t \in Callers : FetchTransactionDetails(t)

SpecStream == Init /\ [][NextStream]_vars

\* two callers of the MetricsCollector
NextMetrics ==
  \/ \E c \in Callers, op \in MetricOps, arg \in BOOLEAN : MetricsCall(c, op, arg)
  \/ \E c \in Callers : RecordStrategyExecution_system(c)
  \/ \E c \in Callers : RecordStrategyExecution_strategy(c)
  \/ \E c \in Callers : RecordOpportunityResult_history(c)
  \/ \E c \in Callers : RecordOpportunityResult_system(c)
  \/ \E c \in Callers : RecordRpcCall(c)
  \/ \E c \in Callers : CheckAlerts_balance(c)
  \/ \E c \in Callers : CheckAlerts_system(c)
  \/ \E c \in Callers : CheckAlerts_rate(c)
  \/ \E c \in Callers : ResetMetrics_system(c)
  \/ \E c \in Callers : ResetMetrics_clear(c)

SpecMetrics == Init /\ [][NextMetrics]_vars

\* two callers of the caches while time passes
NextCache ==
  \/ CacheTick
  \/ \E c \in Callers, key \in {"TOKEN_A_TOKEN_B", "MINT"} : LookupCache(c, key)
  \/ \E c \in Callers : FetchFresh(c)
  \/ \E c \in Callers : WriteCache(c)

SpecCache == Init /\ [][NextCache]_vars

\* start-up in every environment
NextBoot == RiskManagerFromEnv

SpecBoot == InitBoot /\ [][NextBoot]_vars

\* the executor called on opportunities of every type
NextExec ==
  \/ \E k \in OpportunityTypes, p \in OppProfits, target \in BOOLEAN :
       CallExecuteStrategy(1, k, p, target)
  \/ execute_strategy(1)
  \/ run_bundle_simulation(1)
  \/ RequestDynamicFees(1)
  \/ CheckNetProfit(1)
  \/ CreateBundle(1)
  \/ submit_via_jito(1)
  \/ RecordSubmission(1)

SpecExec == Init /\ [][NextExec]_vars

\* the profitability calculations on every input, each call looked at on
\* its own: one simulate_and_validate next to another user of the
\* RpcManager, or OpportunityAnalysis::new
NextProfit ==
  \/ \E gross_profit \in GrossProfits, trade_size \in TradeSizes :
       analysis = NoAnalysis /\ CallSimulateAndValidate(1, gross_profit, trade_size)
  \/ SimulateAndValidate(1)
  \/ SimulateScenario(1)
  \/ RequestDirect(2, "Helius")
  \/ pipe[1].pc = "idle" /\ AnalyseOpportunity

SpecProfit == Init /\ [][NextProfit]_vars

\* the false-positive filter on every input
NextFilter == EvaluateFilters

SpecFilter == Init /\ [][NextFilter]_vars

\* the confidence score on every input
NextScore == ScoreOpportunity

SpecScore == Init /\ [][NextScore]_vars

\* the tip calculation on every pair of inputs
NextTip == CompareTips

SpecTip == Init /\ [][NextTip]_vars

\* the running tip under tip results and adjustments; the tip results stop
\* at MaxTipRecords
NextTipHistory ==
  \/ /\ appended["tip_adjustment_history"] < MaxTipRecords
     /\ \E success \in BOOLEAN : RecordTipResult(DefaultTip, success)
  \/ AdjustTipBasedOnHistory

SpecTipHistory == Init /\ [][NextTipHistory]_vars

\* the entries pushed to a log in this specification
AppendLimit(l) ==
  (CASE l = "tip_adjustment_history" -> TipHistoryCap
     [] l = "risk_events" -> RiskEventCap
     [] l = "alert_history" -> AlertCap) + ExtraAppends

\* the logs share nothing, so the order in which they are pushed to makes no
\* difference to any of them: they are pushed to in turn, a log that has
\* reached its limit standing out
InTurn(l) ==
  /\ appended[l] < AppendLimit(l)
  /\ \A m \in Logs : appended[m] < AppendLimit(m) => appended[l] <= appended[m]

\* the three logs, each pushed past what it keeps
NextLogs ==
  \/ InTurn("tip_adjustment_history") /\ RecordTipResult(DefaultTip, TRUE)
  \/ InTurn("risk_events") /\ RecordRiskEvent("LossLimitExceeded")
  \/ InTurn("alert_history") /\ TriggerAlert

SpecLogs == Init /\ [][NextLogs]_vars

\* the strategy trackers under recorded failures and recorded successes
NextStreak ==
  \/ \E k \in Kinds : record_strategy_failure(2, k)
  \/ PushRiskEvent(2)
  \/ \E p \in Profits : record_successful_operation(1, p)
  \/ RecordSpend(1)

SpecStreak == Init /\ [][NextStreak]_vars

(* ---------------- properties ---------------- *)

\* the step in which task t hands a bundle to Jito
Submits(t) == ~pipe[t].sent /\ pipe'[t].sent

\* the step in which caller t's admission call returns
Returns(t) == call[t].res = "none" /\ call'[t].res # "none"

\* the failure tracker of a strategy kind, none for a kind that has no entry
\* in strategy_failures
Tracker(k) == IF k \in DOMAIN strategy_failures THEN strategy_failures[k] ELSE NoTracker

\* disablement active: is_disabled with disabled_until still in the future
DisabledActive(k) ==
  /\ Tracker(k).present
  /\ Tracker(k).is_disabled
  /\ \E u \in Tracker(k).disabled_until : now < u

\* C1: within one 24h window the summed cost of all admitted attempts never
\* exceeds global_daily_spending_limit.
C1_AdmittedWithinDailyLimit == admitted_total <= limits.global_daily_spending_limit

\* C2: when an attempt is admitted while another admitted attempt has no
\* outcome recorded yet, the two costs fit together into the balance and into
\* the daily-spend headroom.
C2_NoDoubleAdmission ==
  [][\A t1, t2 \in Callers :
       (t1 # t2 /\ Returns(t1) /\ call'[t1].res = "Ok" /\ call[t2].pc = "admitted") =>
          /\ balance_tracker.current_balance >= call[t1].costs + call[t2].costs
          /\ global_daily_spent + call[t1].costs + call[t2].costs
               <= limits.global_daily_spending_limit]_vars

\* the three conditions of a submission, for the opportunity of task t
Eligible(t) ==
  /\ pipe[t].validated_net > 0
  /\ pipe[t].score >= MinConfidenceThreshold
  /\ call[t].pc = "admitted"

\* C3: every bundle submission reached from analyze_and_execute_opportunity
\* through execute_strategy is preceded, for the same opportunity, by a
\* simulated net profit > 0, a confidence score >= the threshold and a
\* successful RiskGate admission; with any one of the three missing, no
\* bundle is submitted for the opportunity.
C3_HandlerSubmissionGated ==
  /\ [][\A t \in Callers :
          (pipe[t].origin = "stream" /\ Submits(t)) => Eligible(t)]_vars
  /\ [](\A t \in Callers :
          (pipe[t].origin = "stream" /\ ~Eligible(t)) => ~pipe[t].sent)

\* an opportunity of the stream with a positive simulated net profit and a
\* score at the threshold, for which no admission was asked: the task is over
\* and no bundle was submitted
C3_Witness ==
  \E t \in Callers :
    /\ pipe[t].origin = "stream" /\ pipe[t].pc = "done"
    /\ pipe[t].validated_net > 0
    /\ pipe[t].score >= MinConfidenceThreshold
    /\ call[t].pc # "admitted"
    /\ ~pipe[t].sent

\* C4: the executor never builds or submits a bundle for a strategy kind whose
\* disablement is active.
C4_DisabledKindNotExecuted ==
  [][\A t \in Callers :
       (pipe[t].pc \in {"x_bundle", "x_submit"} /\ pipe'[t].pc # pipe[t].pc
          /\ pipe'[t].result # "error")
         => ~DisabledActive(pipe[t].otype)]_vars

\* C5: from an enabled kind, max_strategy_failures consecutive failures
\* disable it exactly at the last of them and not earlier, and while the
\* disablement is active every should_allow_strategy call that comes to the
\* strategy check returns StrategyDisabled.
C5_DisabledAtNthFailure ==
  /\ [](\A k \in Kinds :
          (strategy_failures[k].present /\ strategy_failures[k].is_disabled)
            <=> since_enabled[k] >= limits.max_strategy_failures)
  /\ [][\A t \in Callers :
          (Returns(t) /\ call[t].pc \in {"strategy", "reenable"}
             /\ DisabledActive(call[t].kind))
            => call'[t].res = "StrategyDisabled"]_vars

\* C6: a should_allow_strategy call that comes to the strategy check rejects
\* the kind at every time before disabled_until and admits it, with no
\* operator action, at or after disabled_until.
C6_ReenabledAfterWindowOnly ==
  [][\A t \in Callers :
       (Returns(t) /\ call[t].pc \in {"strategy", "reenable"}) =>
          call'[t].res = (IF DisabledActive(call[t].kind) THEN "StrategyDisabled" ELSE "Ok")]_vars

\* C7: whenever a kind returns from Disabled to Enabled its failure_count is 0.
C7_CounterResetOnReenable ==
  [][\A k \in Kinds :
       (strategy_failures[k].is_disabled /\ ~strategy_failures'[k].is_disabled)
         => strategy_failures'[k].failure_count = 0]_vars

\* C8: while the current balance is below min_balance_threshold every admission
\* call returns BalanceTooLow.
C8_LowBalanceRejected ==
  [][\A t \in Callers :
       (Returns(t) /\ balance_tracker.current_balance < limits.min_balance_threshold)
         => call'[t].res = "BalanceTooLow"]_vars

\* the step in which task t comes back from record_risk_event inside method op
EventRecorded(t, op) == call[t].pc = "event" /\ call[t].op = op /\ call'[t].pc # "event"

\* record_successful_operation zeroes the counter, record_failed_operation adds
\* one and answers MaxConsecutiveFailures, after it has recorded the event,
\* exactly when the ceiling is reached
C9_CounterRules ==
  /\ [](consecutive_failure_count = fail_since_reset)
  /\ [][consecutive_failure_count' = consecutive_failure_count + 1 =>
          IF consecutive_failure_count' >= limits.max_consecutive_failures
          THEN \E t \in Tasks : /\ call[t].pc # "event"
                                /\ call'[t].pc = "event"
                                /\ call'[t].op = "record_failed_operation"
                                /\ call'[t].event = "ConsecutiveFailures"
          ELSE last_record' = "Ok"]_vars
  /\ [][\A t \in Tasks : EventRecorded(t, "record_failed_operation") =>
                            last_record' = "MaxConsecutiveFailures"]_vars

\* C9 as stated: the counter rules hold and an admission call is refused with
\* MaxConsecutiveFailures if and only if the most recent
\* max_consecutive_failures recorded outcomes were all failures.
C9_Original ==
  /\ C9_CounterRules
  /\ [][\A t \in Callers :
          Returns(t) => (call'[t].res = "MaxConsecutiveFailures"
                           <=> fail_streak >= limits.max_consecutive_failures)]_vars

\* C9 amended: the counter rules hold and an admission call that has passed the
\* session, daily-spend and balance checks is refused with
\* MaxConsecutiveFailures if and only if, when it reads the counter, the most
\* recent max_consecutive_failures outcomes recorded since the last
\* reset_risk_state were all failures.
C9_CircuitBreaker ==
  /\ C9_CounterRules
  /\ [][\A t \in Callers :
          (call[t].pc = "failures" /\ call'[t].pc # "failures") =>
             (call'[t].event = "ConsecutiveFailures"
                <=> fail_since_reset >= limits.max_consecutive_failures)]_vars
  /\ [][\A t \in Callers :
          Returns(t) => (call'[t].res = "MaxConsecutiveFailures"
                           <=> call[t].event = "ConsecutiveFailures")]_vars
  /\ [](\A t \in Callers :
          call[t].res = "MaxConsecutiveFailures" => call[t].pc = "rejected")

C9_Witness ==
  \E t \in Callers :
    /\ call[t].res = "MaxConsecutiveFailures"
    /\ last_record = "MaxConsecutiveFailures"
    /\ fail_since_reset >= limits.max_consecutive_failures

\* the error of the earliest failing check in the order session, daily spend,
\* balance, consecutive failures, strategy disablement
C10_EarliestFailing(c) ==
  IF SessionExpired THEN "SessionTimeout"
  ELSE IF DailyLimitHit(c.costs) THEN "DailySpendingLimitExceeded"
  ELSE IF BalanceInsufficient(c.costs) THEN "InsufficientBalance"
  ELSE IF FailureCeilingHit THEN "MaxConsecutiveFailures"
  ELSE IF c.op = "strategy" /\ DisabledActive(c.kind) THEN "StrategyDisabled"
  ELSE "Ok"

\* C10 as stated: an admission call returns the error of the earliest failing
\* check in the order session timeout, projected daily spend, balance,
\* consecutive failures, strategy disablement, each check with its own error
\* variant.
C10_Original ==
  [][\A t \in Callers : Returns(t) => call'[t].res = C10_EarliestFailing(call[t])]_vars

\* C10 amended: an admission call returns InternalError, which only its first
\* check does and only when a session timeout is set, or else the error of
\* the earliest failing check in the order session timeout, projected daily
\* spend, balance, consecutive failures, strategy disablement.
C10_CheckOrder ==
  [][\A t \in Callers :
       Returns(t) =>
         IF call'[t].res = "InternalError"
         THEN call[t].pc = "session" /\ limits.session_timeout_minutes > 0
         ELSE call'[t].res = C10_EarliestFailing(call[t])]_vars

C10_Witness ==
  \E t \in Callers :
    /\ call[t].res = "DailySpendingLimitExceeded"
    /\ BalanceInsufficient(call[t].costs)
    /\ FailureCeilingHit

\* a step of caller t's admission call that is not yet over
AdmissionStep(t) ==
  /\ call'[t].op \in {"operation", "strategy"}
  /\ call[t].pc \notin {"admitted", "rejected", "spend"}
  /\ call'[t].pc \notin {"idle", "spend"}
  /\ call'[t] # call[t]

\* C11: no step of an admission call that ends in an error changes the risk
\* state: balance tracker (current balance, total spent, total earned), daily
\* spend, consecutive-failure counter and every per-strategy tracker keep
\* their values; only the steps that return Ok may write.
C11_ErrorLeavesStateUnchanged ==
  [][\A t \in Callers :
       (AdmissionStep(t) /\ call'[t].res # "Ok") =>
          UNCHANGED <<balance_tracker, global_daily_spent,
                      consecutive_failure_count, strategy_failures>>]_vars

C11_Witness ==
  \E t \in Callers :
    /\ call[t].pc = "rejected"
    /\ call[t].res = "StrategyDisabled"
    /\ DisabledActive(call[t].kind)
    /\ strategy_failures[call[t].kind].failure_count >= limits.max_strategy_failures

\* C12: update_balance with a value below min_balance_threshold answers
\* BalanceTooLow, after the event of the breach is recorded, and is not
\* applied: current_balance, total_spent and total_earned keep the values
\* they had before the call.
C12_RejectedUpdateNotApplied ==
  /\ [][\A t \in Callers, b \in Balances :
          (update_balance(t, b) /\ b < limits.min_balance_threshold) =>
             /\ call'[t].event = "BalanceThresholdBreached"
             /\ balance_tracker' = balance_tracker]_vars
  /\ [][\A t \in Callers : EventRecorded(t, "update_balance") =>
                              last_record' = "BalanceTooLow"]_vars

\* C13: the daily-spend accumulator resets every 24 hours: an attempt whose
\* cost alone fits the daily limit is not refused with
\* DailySpendingLimitExceeded once every recorded spend is at least 24 hours
\* old.
C13_DailyWindowResets ==
  [][\A t \in Callers :
       (call[t].pc = "daily" /\ call'[t].pc # "daily" /\ now >= DaySecs
          /\ call[t].costs <= limits.global_daily_spending_limit)
         => call'[t].event # "DailyLimitExceeded"]_vars

\* the stage a task of analyze_and_execute_opportunity is in: the fetch of
\* the transaction details, then evaluate 1, simulate 2, score 3, risk gate 4
\* (no place of the task is in it), execute 5, record 6
Stage(pc) ==
  CASE pc = "fetch" -> 0
    [] pc = "evaluate" -> 1
    [] pc = "simulate" -> 2
    [] pc = "filter" -> 3
    [] pc \in {"execute", "x_simulate", "x_costs", "x_bundle", "x_submit", "x_record"} -> 5
    [] pc = "x_metrics" -> 6

\* C14: for each opportunity handled by analyze_and_execute_opportunity the
\* stages run in the order evaluate, simulate, score, risk gate, execute,
\* record: a task leaves a stage for the next one or ends, so none is
\* skipped on the way, and the execute stage starts only after the risk gate
\* has returned an admission.
C14_StagesInOrder ==
  [][\A t \in Callers :
       (pipe[t].origin = "stream" /\ pipe'[t].pc # pipe[t].pc) =>
          \/ pipe'[t].pc = "done"
          \/ /\ Stage(pipe'[t].pc) \in {Stage(pipe[t].pc), Stage(pipe[t].pc) + 1}
             /\ (pipe'[t].pc = "execute" => call[t].pc = "admitted")]_vars

\* an opportunity of the stream at the score stage, the evaluation and the
\* simulation behind it
C14_Witness ==
  \E t \in Callers :
    /\ pipe[t].origin = "stream" /\ pipe[t].pc = "filter"
    /\ pipe[t].estimated_profit > 0
    /\ pipe[t].validated_net # 0

\* C15: when simulate_and_validate reports is_profitable = false the
\* opportunity is rejected at that stage: the confidence scorer (and with it
\* every later stage) runs only for a validation that is profitable.
C15_UnprofitableStopsAtSimulation ==
  [][\A t \in Callers :
       (pipe[t].pc = "filter" /\ pipe'[t].pc # "filter") => pipe[t].is_profitable]_vars

\* C16: every attempt that reached the strategy executor ends with its result
\* fed to the RiskGate: once an attempt has ended in a failure or an error,
\* record_strategy_failure has been called for its kind, so the kind has a
\* failure tracker.
C16_OutcomeFedToRiskGate ==
  \A t \in Callers :
    (pipe[t].pc = "done" /\ pipe[t].result \in {"failed", "error"})
      => Tracker(pipe[t].otype).present

\* C17: when the details of the target transaction cannot be fetched (error
\* or timeout) the task ends there with no opportunity: profit 0, not
\* profitable, and no simulation, scoring, execution or submission follows.
C17_FetchFailureEndsTask ==
  /\ [][\A t \in Callers :
          (pipe[t].pc = "fetch" /\ pipe'[t].pc # "fetch" /\ ~pipe'[t].target)
            => (pipe'[t].pc = "done" /\ pipe'[t].result = "no_details")]_vars
  /\ [](\A t \in Callers :
          pipe[t].result = "no_details" =>
            /\ pipe[t].pc = "done"
            /\ pipe[t].estimated_profit = 0
            /\ ~pipe[t].is_profitable
            /\ pipe[t].validated_net = 0
            /\ pipe[t].score = 0
            /\ pipe[t].bundle = <<>>
            /\ ~pipe[t].sent)
  /\ [][\A t \in Callers : pipe[t].result = "no_details" => pipe'[t] = pipe[t]]_vars

C17_Witness ==
  \E t \in Callers :
    /\ pipe[t].origin = "stream"
    /\ pipe[t].result = "no_details"
    /\ ~pipe[t].target

\* the step in which get_best_rpc answers caller c
GetsBest(c) ==
  /\ req'[c] # req[c]
  /\ req'[c].role \in RpcTaskTypes
  /\ req'[c].res \in {"pending", "NoHealthyEndpoint"}

\* the step in which a make_request call of caller c returns
MakesRequest(c) == req'[c].calls = req[c].calls + 1

\* C18: get_best_rpc never returns an endpoint whose most recent health check
\* marked it unhealthy, and it returns None exactly when every endpoint
\* eligible for the task type is flagged unhealthy.
C18_NeverRoutesToUnhealthy ==
  [][\A c \in Callers :
       GetsBest(c) =>
         LET e == req'[c].ep
             pref == Preference(req'[c].role)
         IN /\ e # "none" => checked[e] # "unhealthy"
            /\ e = "none" <=> \A i \in 1..Len(pref) : ~endpoints[pref[i]].is_healthy]_vars

\* C20: every make_request call feeds its outcome into the rolling health of
\* its endpoint with the 0.9 / 0.1 weighting: a successful call moves
\* success_rate toward 1, a failed call moves it toward 0 and leaves the
\* endpoint marked unhealthy.
C20_OutcomeFedToHealth ==
  [][\A c \in Callers :
       MakesRequest(c) =>
         LET e == req'[c].ep
             rate == endpoints[e].success_rate
         IN IF req'[c].res = "Ok"
            THEN endpoints'[e].success_rate = (9 * rate + 1000) \div 10
            ELSE /\ endpoints'[e].success_rate = (9 * rate) \div 10
                 /\ ~endpoints'[e].is_healthy]_vars

\* C19: when every configured endpoint is marked unhealthy, so that
\* get_best_rpc(Execute) returns None, the executor sends no bundle.
C19_NoBundleWithoutEndpoint ==
  [][\A t \in Callers :
       Submits(t) => \E e \in EndpointTypes : endpoints[e].is_healthy]_vars

\* C21: get_best_rpc returns the highest-priority healthy endpoint of the
\* role: for Read and Simulate Helius, else Drpc, else Jito; for Execute
\* Jito, else Drpc; a lower-priority endpoint only when every
\* higher-priority endpoint of the role is flagged unhealthy.
C21_HighestPriorityHealthy ==
  [][\A c \in Callers :
       GetsBest(c) =>
         req'[c].ep =
           (IF req'[c].role \in {"Read", "Simulate"}
            THEN IF endpoints["Helius"].is_healthy THEN "Helius"
                 ELSE IF endpoints["Drpc"].is_healthy THEN "Drpc"
                 ELSE IF endpoints["Jito"].is_healthy THEN "Jito"
                 ELSE "none"
            ELSE IF endpoints["Jito"].is_healthy THEN "Jito"
                 ELSE IF endpoints["Drpc"].is_healthy THEN "Drpc"
                 ELSE "none")]_vars

C21_Witness ==
  \E c \in Callers :
    /\ req[c].role = "Read"
    /\ req[c].res = "pending"
    /\ req[c].ep = "Drpc"
    /\ ~endpoints["Helius"].is_healthy
    /\ endpoints["Jito"].is_healthy

\* the step in which the receive loop observes a transaction for task t
Observes(t) == mon.pc = "recv" /\ pipe[t].pc = "idle" /\ pipe'[t].pc # "idle"

\* C22: the stream-consumption loop only hands each observed transaction to
\* a newly spawned task and never awaits the analysis inside its receive
\* loop: the step that observes a transaction starts the task, leaves the
\* loop at its receive, and is taken whatever the other tasks are doing, so
\* that the next receive does not wait for them.
C22_ReceiveLoopOnlySpawns ==
  /\ [][\A t \in Callers :
          Observes(t) => /\ mon' = mon
                         /\ pipe'[t].pc = "fetch" /\ pipe'[t].origin = "stream"
                         /\ \A u \in Callers \ {t} : pipe'[u] = pipe[u]]_vars
  /\ [](\A t \in Callers :
          (mon.pc = "recv" /\ pipe[t].pc = "idle") => ENABLED LogsNotification(t))

\* the loop is at its receive while two tasks it spawned are both under way
C22_Witness ==
  /\ mon.pc = "recv"
  /\ pipe[1].origin = "stream" /\ pipe[1].pc = "evaluate"
  /\ pipe[2].origin = "stream" /\ pipe[2].pc = "fetch"

\* C23: on a transport error or the end of the stream the loop reconnects
\* with backoff, and goes to slot polling only after a number of
\* consecutive failed reconnects: no step leads from the receive loop
\* straight to slot polling.
C23_ReconnectBeforeDegrading ==
  [][mon.pc = "recv" => mon'.pc # "slot"]_vars

\* caller c is inside a method of the MetricsCollector
InMetricsCall(c) == mc[c].pc \notin {"idle", "returned"}

\* the lock caller c is waiting for, and whether it can have it now
CanProceed(c) ==
  CASE mc[c].pc = "balance_alert" -> CanWrite("alert_history")
    [] mc[c].pc = "rate_alert" -> CanWrite("alert_history")
    [] mc[c].op = "check_and_trigger_alerts" /\ mc[c].pc = "system_metrics" ->
         CanRead("system_metrics")
    [] OTHER -> CanWrite(mc[c].pc)

\* C24: under every interleaving of record_strategy_execution,
\* record_opportunity_result, record_rpc_call, check_and_trigger_alerts and
\* reset_metrics there is no deadlock: while calls are in progress, one of
\* them can take the lock it is waiting for.
C24_MetricsNeverDeadlock ==
  (\E c \in Callers : InMetricsCall(c)) =>
    \E c \in Callers : InMetricsCall(c) /\ CanProceed(c)

\* the step in which caller c looks an entry up under the given key
LooksUp(c, key) ==
  /\ lookup[c].pc = "idle"
  /\ lookup'[c].key = key
  /\ lookup'[c].pc = "fetch" \/ (lookup'[c].res = "cached" /\ UNCHANGED <<ctime, cache>>)
  /\ \A d \in Callers \ {c} : lookup'[d] = lookup[d]

\* C25: get_pool_state and get_token_price never return a cached entry older
\* than its TTL (1 s for pools, 5 s for prices): a lookup that finds an entry
\* beyond the TTL goes to the fetch and returns the value it fetched, which
\* is also what it leaves in the cache.
C25_NoStaleRead ==
  [][\A c \in Callers :
       /\ \A key \in CacheKeys :
            (LooksUp(c, key)
               /\ \E last_updated \in cache[key] :
                    ctime - last_updated > Ttl(key) * TicksPerSec)
              => lookup'[c].pc = "fetch"
       /\ \A key \in CacheKeys :
            (LooksUp(c, key) /\ lookup'[c].res = "cached")
              => \E last_updated \in cache[key] :
                   ctime - last_updated <= Ttl(key) * TicksPerSec
       /\ (lookup[c].pc = "write" /\ lookup'[c].pc = "idle")
            => lookup'[c].res = "fetched" /\ cache'[lookup[c].key] = {lookup[c].fetched}]_vars

\* a lookup found the pool entry beyond its TTL and is refetching
C25_Witness ==
  \E c \in Callers :
    /\ lookup[c].pc = "write" /\ lookup[c].key \in PoolKeys
    /\ \E last_updated \in cache[lookup[c].key] :
         lookup[c].fetched - last_updated > PoolTtlSecs * TicksPerSec

\* C26: start-up fails with an explicit error and the pipeline never starts
\* whenever a risk-bounding setting is absent from the environment; no
\* default is put in its place.
C26_AbsentSettingFailsStartup ==
  (\E s \in Settings : env[s] = {}) => boot.pc # "running"

\* C27: calculate_dynamic_fees never fails its caller because the fee
\* samples could not be fetched: also with no healthy read endpoint the
\* executor gets a fee estimate and its cost stage does not end in an error.
C27_FeeFetchFailureGivesDefault ==
  [][\A t \in Callers :
       pipe[t].pc = "x_costs" => pipe'[t].result # "error"]_vars

\* C28: for every opportunity kind the executor submits nothing when the net
\* profit after tip and fee estimate is below that kind's minimum profit
\* floor, and the floor of arbitrage and frontrun is lower than that of
\* sandwich.
C28_BelowFloorNotSubmitted ==
  /\ ProfitFloor("Arbitrage") < ProfitFloor("Sandwich")
  /\ ProfitFloor("Frontrun") < ProfitFloor("Sandwich")
  /\ \A t \in Callers :
       pipe[t].sent => /\ HasProfitFloor(pipe[t].otype)
                       /\ pipe[t].net_profit >= ProfitFloor(pipe[t].otype)

\* C29: every profitability result has net_profit = gross profit - (fee +
\* tip + slippage + safety margin), and none reports is_profitable together
\* with a net profit of 0 or less; a profit of 0.005 with a cost of 0.006 is
\* not profitable.
C29_NetProfitRule ==
  /\ analysis.by = "validate_net_profit" =>
       /\ \A i \in DOMAIN analysis.results :
            LET r == analysis.results[i]
            IN r.net_profit = analysis.gross_profit
                               - (r.estimated_fees + r.jito_tip + r.slippage + r.safety_margin)
       /\ (\E i \in DOMAIN analysis.results : analysis.results[i].is_valid) =>
            analysis.out.net_profit = analysis.gross_profit - analysis.out.total_costs
       /\ analysis.out.is_profitable => analysis.out.net_profit > 0
  /\ analysis.by = "OpportunityAnalysis::new" =>
       /\ analysis.out.net_profit = analysis.out.profit - analysis.out.cost
       /\ analysis.out.is_profitable => analysis.out.net_profit > 0
       /\ (analysis.out.profit = 5000 /\ analysis.out.cost = 6000) =>
            ~analysis.out.is_profitable

\* an analysis found profitable, or a validation that reports the positive
\* net profit of its best valid scenario
C29_Witness ==
  \/ /\ analysis.by = "OpportunityAnalysis::new"
     /\ analysis.out.is_profitable /\ analysis.out.cost > 0
  \/ /\ analysis.by = "validate_net_profit"
     /\ analysis.out.net_profit > 0 /\ analysis.out.total_costs > safety_margin

\* C30: evaluate_opportunity returns should_execute = false whenever a hard
\* filter fails (slippage factor at most 0.5, pool depth below the multiple
\* of the trade size, estimated profit below the floor, or the spam check
\* failing), whatever the confidence score.
C30_HardFilterOverridesScore ==
  analysis.by = "evaluate_opportunity" =>
    ((\/ analysis.slippage_factor <= 50
      \/ analysis.pool_size < analysis.trade_size * pool_depth_multiplier
      \/ analysis.estimated_profit < MinOpportunityValue
      \/ ~analysis.spam_check)
       => ~analysis.out.should_execute)

\* a score at the threshold or above, rejected on the slippage factor
C30_Witness ==
  /\ analysis.by = "evaluate_opportunity"
  /\ analysis.score >= MinConfidenceThreshold
  /\ analysis.slippage_factor <= 50
  /\ analysis.pool_size >= analysis.trade_size * pool_depth_multiplier
  /\ analysis.estimated_profit >= MinOpportunityValue
  /\ ~analysis.out.should_execute

\* C31: an opportunity that detect_spam_transaction does not flag (it returns
\* false), whose confidence score is at the threshold or above and which
\* passes the slippage, pool-depth and value filters, gets should_execute = true.
C31_UnflaggedOpportunityExecutes ==
  analysis.by = "evaluate_opportunity" =>
    ((/\ ~analysis.spam_check
      /\ analysis.score >= MinConfidenceThreshold
      /\ analysis.slippage_factor > 50
      /\ analysis.pool_size >= analysis.trade_size * pool_depth_multiplier
      /\ analysis.estimated_profit >= MinOpportunityValue)
       => analysis.out.should_execute)

\* C32: the score calculate_confidence_score returns lies between 0 and 1
\* for every opportunity and every list of simulation results, the empty
\* list included, and the seven factor weights sum to 1.
C32_ScoreWithinUnitInterval ==
  /\ SumOver(FactorWeights, DOMAIN FactorWeights) = 100
  /\ Len(FactorWeights) = 7
  /\ analysis.by = "calculate_confidence_score" =>
       (0 <= analysis.out.score /\ analysis.out.score <= 100000)

\* valid simulation results with a loss on average take the weighted sum
\* below 0, and the score is 0
C32_Witness ==
  /\ analysis.by = "calculate_confidence_score"
  /\ analysis.out.weighted_score < 0
  /\ analysis.out.score = 0

\* C33: for one opportunity value the optimal tip does not fall when the
\* network congestion rises with the competition level held, nor when the
\* competition level rises with the congestion held, the clamped tips included.
C33_TipMonotone ==
  analysis.by = "calculate_optimal_tip" =>
    /\ analysis.c1 <= analysis.c2 => analysis.out.tip <= analysis.out.tip_c2
    /\ analysis.k1 <= analysis.k2 => analysis.out.tip <= analysis.out.tip_k2

\* a higher congestion takes the tip from under the upper bound to the bound
C33_Witness ==
  /\ analysis.by = "calculate_optimal_tip"
  /\ analysis.c1 < analysis.c2
  /\ analysis.out.tip < analysis.out.tip_c2
  /\ analysis.out.tip_c2 = MaxTip
  /\ analysis.k1 < analysis.k2
  /\ analysis.out.tip < analysis.out.tip_k2

\* the success rate of a tip history is under 0.7
RateLow(history) == recent_successes(history) * 10 < 7 * Len(history)

\* the success rate of a tip history is over 0.9
RateHigh(history) == recent_successes(history) * 10 > 9 * Len(history)

\* C34: the running base tip stays between 0.0001 and 0.01 SOL under every
\* sequence of record_tip_result and adjust_tip_based_on_history calls; one
\* adjustment raises it only on a success rate under 0.7, lowers it only on
\* a rate over 0.9 and leaves it as it was otherwise, the empty history
\* included.
C34_TipWithinBandAndAdjustedByRate ==
  /\ MinTip <= current_tip /\ current_tip <= MaxTip
  /\ analysis.by = "adjust_tip_based_on_history" =>
       /\ analysis.out > analysis.before =>
            analysis.history # <<>> /\ RateLow(analysis.history)
       /\ analysis.out < analysis.before =>
            analysis.history # <<>> /\ RateHigh(analysis.history)
       /\ (analysis.history = <<>>
             \/ (~RateLow(analysis.history) /\ ~RateHigh(analysis.history)))
            => analysis.out = analysis.before

\* an adjustment on three successes in four left the tip, which earlier
\* adjustments had moved, as it was
C34_Witness ==
  /\ analysis.by = "adjust_tip_based_on_history"
  /\ Len(analysis.history) = 4
  /\ recent_successes(analysis.history) = 3
  /\ analysis.before # DefaultTip
  /\ analysis.out = analysis.before

\* a log holds the last entries pushed to it, at most cap of them, in the
\* order of arrival
RetainsNewest(log, cap, pushed) ==
  /\ Len(log) = Min(pushed, cap)
  /\ \A i \in DOMAIN log : log[i].at = pushed - Len(log) + i

\* C35: after any sequence of appends the tip history holds at most 100
\* entries and the risk-event log and the alert log at most 1000 each, and
\* each holds exactly the most recent entries in the order of arrival.
C35_LogsBoundedKeepNewest ==
  /\ RetainsNewest(tip_adjustment_history, TipHistoryCap,
                   appended["tip_adjustment_history"])
  /\ RetainsNewest(risk_events, RiskEventCap, appended["risk_events"])
  /\ RetainsNewest(alert_history, AlertCap, appended["alert_history"])

\* each log has been pushed past its cap and has dropped its oldest entries
C35_Witness ==
  /\ appended["tip_adjustment_history"] > TipHistoryCap + 1
  /\ Len(tip_adjustment_history) = TipHistoryCap
  /\ tip_adjustment_history[1].at = appended["tip_adjustment_history"] - TipHistoryCap + 1
  /\ appended["risk_events"] > RiskEventCap + 1
  /\ Len(risk_events) = RiskEventCap
  /\ risk_events[1].at > 2
  /\ appended["alert_history"] > AlertCap + 1
  /\ Len(alert_history) = AlertCap
  /\ alert_history[AlertCap].at = appended["alert_history"]

\* C36: a kind's failure counter counts consecutive failures: a kind becomes
\* disabled only when max_strategy_failures failures of it have been
\* recorded with no recorded success between them.
C36_DisabledOnConsecutiveFailuresOnly ==
  [][\A k \in Kinds :
       (~strategy_failures[k].is_disabled /\ strategy_failures'[k].is_disabled)
         => since_success'[k] >= limits.max_strategy_failures]_vars

\* C37: every bundle handed to send_bundle is a non-empty set of strategy
\* transactions (for a sandwich the frontrun followed by the backrun)
\* followed by exactly one tip transaction, which is last; a bundle of the
\* tip transaction alone is never sent.
C37_BundleIsStrategySetThenTip ==
  \A t \in Callers :
    pipe[t].sent =>
      LET bundle == pipe[t].bundle
          n == Len(bundle)
      IN /\ n >= 2
         /\ bundle[n] = "tip"
         /\ \A i \in 1..(n - 1) : bundle[i] # "tip"
         /\ pipe[t].otype = "Sandwich" => bundle = <<"frontrun", "backrun", "tip">>

\* a sandwich bundle has been sent: frontrun, backrun, tip
C37_Witness ==
  \E t \in Callers :
    /\ pipe[t].sent
    /\ pipe[t].otype = "Sandwich"
    /\ pipe[t].bundle = <<"frontrun", "backrun", "tip">>

(* ---------------- the consecutive-loss breaker of the SolanaExecutor ---------------- *)

\* the strategies of the executor called by one user over days, next to a
\* caller of record_transaction_result
NextLegacy ==
  \/ \E p \in LegacyProfits : execute_frontrun(p)
  \/ \E p \in BreakerProfits : execute_sandwich(p)
  \/ \E p \in BreakerProfits : execute_arbitrage(p)
  \/ \E p \in BreakerProfits : execute_snipe(p)
  \/ should_continue_operation("caller")
  \/ calculate_transaction_fees("caller")
  \/ get_recent_blockhash("caller")
  \/ send_bundle("caller")
  \/ send_transaction("caller")
  \/ record_transaction_analytics("caller")
  \/ \E success \in BOOLEAN, profit \in RecordedProfits : record_transaction_result(success, profit)
  \/ DayPasses

SpecLegacy == Init /\ [][NextLegacy]_vars

\* execute_frontrun called directly and by the slot-polling fallback, each on
\* its clone of the executor
NextSlot ==
  \/ \E p \in LegacyProfits : execute_frontrun(p)
  \/ \E o \in ExecCallers : should_continue_operation(o)
  \/ \E o \in ExecCallers : calculate_transaction_fees(o)
  \/ \E o \in ExecCallers : get_recent_blockhash(o)
  \/ \E o \in ExecCallers : send_bundle(o)
  \/ \E o \in ExecCallers : send_transaction(o)
  \/ \E o \in ExecCallers : record_transaction_analytics(o)
  \/ ConnectWs
  \/ GetSlot
  \/ SlotFrontrunReturned
  \/ SlotSleep

SpecSlot == Init /\ [][NextSlot]_vars

\* the step in which the call of user o gets the answer of the risk manager
AsksRiskManager(o) == legacy.call[o].allowed = {} /\ legacy'.call[o].allowed # {}

\* C38: once max_consecutive_losses executions in a row have failed, with no
\* success and no daily reset since, every further attempt that reaches the
\* risk manager is refused by should_allow_transaction
C38_BreakerRejectsAfterLosses ==
  [][\A o \in ExecCallers :
       (/\ legacy.failed_in_a_row >= LegacyMaxConsecutiveLosses
        /\ AsksRiskManager(o)
        /\ risk_state'.last_reset_time = risk_state.last_reset_time)
       => legacy'.call[o].allowed = {FALSE}]_vars

\* C39: an execute_frontrun call with an estimated profit of zero or less
\* sends nothing and spends nothing, and the call of the slot-polling
\* fallback is such a call
C39_NoSendWithoutProfit ==
  /\ \A o \in ExecCallers :
       (legacy.call[o].strategy = "frontrun" /\ legacy.call[o].estimated_profit <= 0)
         => ~legacy.call[o].submitted /\ legacy.call[o].spent = 0
  /\ legacy.call["slot"].pc # "idle"
       => /\ legacy.call["slot"].strategy = "frontrun"
          /\ legacy.call["slot"].estimated_profit = 0
          /\ ~legacy.call["slot"].submitted /\ legacy.call["slot"].spent = 0

\* the slot-polling fallback has called execute_frontrun with a sufficient
\* balance, the risk manager has refused the call, and the call has returned
C39_Witness ==
  /\ legacy.call["slot"].pc = "done"
  /\ legacy.call["slot"].allowed = {FALSE}
  /\ legacy.call["slot"].result = "rejected_by_risk_manager"
  /\ ~legacy.call["slot"].submitted

====
